---- MODULE Spec2Model ----
(***************************************************************************)
(* Verification model of presence360.  Tenant API (apps/tenant-api): the   *)
(* idempotency ledger shared by the HTTP handlers POST /gate/frames and    *)
(* POST /messages/send and the Celery jobs recognition_job /               *)
(* send_message_job, the tenant registry client cache, the tenant session  *)
(* manager, face enrolment, the rule engine (run_rule_job) and the         *)
(* transactions of the tenant sessions.  Control plane                     *)
(* (apps/control-plane-api): tenant provisioning.                          *)
(*                                                                         *)
(* One tenant database is modelled for the ledger part.  A handler or job  *)
(* is a small state machine; every step is one action.  Database commits   *)
(* are atomic steps, unique constraints are enforced at the commit.        *)
(***************************************************************************)
EXTENDS Integers, Sequences, FiniteSets, TLC

\* ------------------------------------------------------------------ bounds
MaxTime == 2
MaxDeliveries == 2

\* ------------------------------------------------------- program constants
\* settings.gate_session_ttl_seconds, in model clock ticks
GateSessionTtl == 2
\* DEFAULT_CONFIG["rekognition_min_confidence"]: 90 percent, in hundredths
DefaultMinConfidence == 9000

ApiProcs == {"a1", "a2"}
Workers == {"w1", "w2"}

NULL == "NULL"
NoTime == -1
NoConf == -1

VARIABLES
    now,        \* wall clock, in ticks
    settings,   \* the process settings (config.py), fixed at start
    ledger,     \* table idempotency_keys (committed rows)
    recog,      \* table recognition_results
    visits,     \* table visit_events
    msgLogs,    \* table message_logs
    gateSess,   \* table gate_agent_sessions
    tenantCfg,  \* table tenant_config: the numeric keys that have a row
    apiKey,     \* table tenant_config: the value of mnotify_api_key
    smsCalls,   \* the send_sms calls made to the messaging capability
    queue,      \* Celery broker: the jobs enqueued, in order
    delivered,  \* number of times each queued job was handed to a worker
    req,        \* per API worker thread: the request being handled
    resp,       \* the HTTP response sent by the step just taken, if any
    wrk,        \* per Celery worker: the job being executed
    sessOpen,   \* per thread / worker: tenant sessions obtained and not closed
    client,     \* the client driving the run: the gate agent or the staff client
    \* -- the tenant registry client of one process (tenant_registry.py)
    clock,              \* time.monotonic(), in ticks
    cache_ttl_seconds,  \* settings.tenant_registry_cache_ttl_seconds, as configured
    cache,              \* TenantRegistryClient._cache
    directory,          \* what the control plane answers for each slug right now
    lookup,             \* the get_tenant call just made and how it ended
    notFoundRun,        \* per slug: lookups in a row that ended NotFound while
                        \* the control plane kept answering 404 (capped)
    \* -- the session manager of one process (tenant_db.py)
    env,            \* settings.env
    dns,            \* the database hosts socket.gethostbyname resolves
    engine_cache,   \* TenantSessionManager._engine_cache
    factories,      \* the engines / session factories created, in order
    lock,           \* TenantSessionManager._lock: the thread holding it
    call,           \* per thread: the get_session call in progress
    returned,       \* the session the step just taken has returned, if any
    \* -- the tenant resolution middleware (main.py, tenancy.py)
    served,         \* the request the middleware has just served and how
    \* -- the deployment of the API
    bootstrap,      \* per API process: its settings.gate_bootstrap_token
    \* -- face enrollment (main.py enroll_faces, delete_faces)
    profiles,       \* table face_profiles (committed rows)
    consent,        \* people.consent_status of each person
    consentEvents,  \* table consent_events, in insertion order
    audits,         \* table audit_logs, in insertion order
    faceAnswer,     \* the response of the face request just served, with the
                    \* calls it made to the matching capability
    \* -- the rule engine (worker.py run_rule_job, main.py run_rule)
    ruleRuns,       \* table rule_runs (committed rows)
    tasks,          \* table follow_up_tasks (committed rows)
    userRoles,      \* tables roles / user_roles: who holds which role
    \* -- the control plane (control-plane-api provisioning.py)
    tenants,        \* table tenants (committed rows)
    tenantDbs,      \* table tenant_db_connections (committed rows)
    globalAudits,   \* table global_audit_logs (committed rows)
    databases,      \* the tenant databases of the PostgreSQL server
    dbRoles,        \* the login roles of the PostgreSQL server
    collections,    \* the collections of the face matching capability
    prov,           \* per control-plane thread: the provisioning in progress
    txn,            \* per operation: its tenant session's transaction, the
                    \* provider call in flight
    mnotify,        \* MNotifyProvider.send_sms: the call in progress
    lookups         \* per thread: its get_tenant call in progress

ledgerVars == <<now, settings, ledger, recog, visits, msgLogs, gateSess,
                tenantCfg, apiKey, smsCalls, queue, delivered, req, resp, wrk,
                sessOpen, client>>
registryVars == <<clock, cache_ttl_seconds, cache, directory, lookup, notFoundRun>>

managerVars == <<env, dns, engine_cache, factories, lock, call, returned>>

routingVars == <<served>>

deployVars == <<bootstrap>>

faceVars == <<profiles, consent, consentEvents, audits, faceAnswer>>

ruleVars == <<ruleRuns, tasks, userRoles>>

provVars == <<tenants, tenantDbs, globalAudits, databases, dbRoles, collections, prov>>

txnVars == <<txn>>

mnotifyVars == <<mnotify>>

lookupVars == <<lookups>>

vars == <<ledgerVars, registryVars, managerVars, routingVars, deployVars, faceVars, ruleVars, provVars, txnVars, mnotifyVars, lookupVars>>

\* what the steps of one part leave alone
notLedger == <<registryVars, managerVars, routingVars, deployVars, faceVars, ruleVars, provVars, txnVars, mnotifyVars, lookupVars>>

notRegistry == <<ledgerVars, managerVars, routingVars, deployVars, faceVars, ruleVars, provVars, txnVars, mnotifyVars, lookupVars>>

notManager == <<ledgerVars, registryVars, routingVars, deployVars, faceVars, ruleVars, provVars, txnVars, mnotifyVars, lookupVars>>

notFaces == <<ledgerVars, registryVars, managerVars, routingVars, deployVars, ruleVars, provVars, txnVars, mnotifyVars, lookupVars>>

notRules == <<registryVars, managerVars, routingVars, deployVars, faceVars, provVars, txnVars, mnotifyVars, lookupVars>>

notProv == <<now, settings, ledger, recog, visits, msgLogs, gateSess, tenantCfg,
             apiKey, smsCalls, queue, delivered, req, wrk, sessOpen, client,
             registryVars, managerVars, routingVars, deployVars, faceVars, ruleVars,
             txnVars, mnotifyVars, lookupVars>>

notTxn == <<now, settings, ledger, recog, visits, msgLogs, gateSess, apiKey,
            smsCalls, queue, delivered, req, resp, wrk, sessOpen, client,
            registryVars, managerVars, routingVars, deployVars, faceVars, ruleVars,
            provVars, mnotifyVars, lookupVars>>

notMNotify == <<ledgerVars, registryVars, managerVars, routingVars, deployVars, faceVars,
                ruleVars, provVars, txnVars, lookupVars>>

notLookups == <<ledgerVars, managerVars, routingVars, deployVars, faceVars, ruleVars,
                provVars, txnVars, mnotifyVars>>

notRouting == <<ledgerVars, managerVars, deployVars, faceVars, ruleVars, provVars, txnVars, mnotifyVars, lookupVars>>


\* ---------------------------------------------------------------- parsing
\* uuid.UUID(text): accepts upper-case hex, str() renders lower-case.
Uuids == {"f1", "f2", "g1", "g2", "s1", "s2"} \cup {"u" \o ToString(n) : n \in 1..9}

UuidParse(text) ==
    LET lowered == IF text = "F1" THEN "f1" ELSE text
    IN  IF lowered \in Uuids THEN lowered ELSE "invalid"

\* table rules
Rules ==
    {[id |-> "rw", rule_type |-> "welcome", status |-> "active"],
     [id |-> "ra", rule_type |-> "absence", status |-> "active"],
     [id |-> "rp", rule_type |-> "welcome", status |-> "paused"],
     [id |-> "rb", rule_type |-> "birthday", status |-> "active"]}

\* uuid.UUID(rule_id): r9 is a well-formed id of no rule
RuleIdParse(text) ==
    IF text \in {r.id : r \in Rules} \cup {"r9"} THEN text ELSE "invalid"

\* _parse_datetime(value).isoformat(): "Z" is replaced by "+00:00", a naive
\* time is taken as UTC; anything else raises ValueError.
ParseDatetime(value) ==
    CASE value = "10:00Z" -> "10:00+00:00"
      [] value = "10:00+00:00" -> "10:00+00:00"
      [] value = "10:00" -> "10:00+00:00"
      [] value = "11:00Z" -> "11:00+00:00"
      [] OTHER -> "invalid"

\* float(motion_score) then str(float): None stays None.
ParseMotion(value) ==
    CASE value = NULL -> NULL
      [] value = "0.5" -> "0.5"
      [] value = "0.50" -> "0.5"
      [] OTHER -> "invalid"

\* _parse_optional_bool: None / "" -> None, then strip().lower().
ParseOptionalBool(value) ==
    CASE value = NULL -> NULL
      [] value = "" -> NULL
      [] value \in {"true", "True", "1", "yes", "y", " true"} -> "True"
      [] value \in {"false", "False", "0", "no", "n"} -> "False"
      [] OTHER -> "invalid"

Sha256(text) == <<"sha256", text>>

\* _hash_payload: the fields joined by "|", absent optional fields empty.
HashPayload(frame_id, gate_id, captured_iso, image, motion, face) ==
    Sha256(frame_id \o "|" \o gate_id \o "|" \o captured_iso \o "|"
           \o (IF motion = NULL THEN "" ELSE motion) \o "|"
           \o (IF face = NULL THEN "" ELSE face) \o "|" \o image)

\* base64.b64encode(image_bytes).decode("ascii")
B64Encode(image) == IF image = "A" THEN "QQ==" ELSE "Qg=="

\* ------------------------------------------------------------ fixed tables
\* table gates
Gates == {[id |-> "g1", status |-> "active"], [id |-> "g2", status |-> "inactive"]}

\* table face_profiles (provider rekognition)
FaceProfiles ==
    {[face_id |-> "faceX", person_id |-> "p1", status |-> "active"],
     [face_id |-> "faceGone", person_id |-> "p1", status |-> "deleted"]}

\* settings.gate_bootstrap_token
BootstrapToken == "boot"

\* ------------------------------------------------------------ request state
IdleReq == [pc |-> "idle", op |-> "none", key |-> NULL, hash |-> Sha256(""),
            ref |-> NULL, t |-> 0, tok |-> NULL, job |-> <<>>, row |-> <<>>]
NoResp == [status |-> 0, ref |-> NULL, idem |-> FALSE]
IdleWrk == [pc |-> "idle", job |-> 0, dec |-> <<>>]

Response(status, ref, idem) == [status |-> status, ref |-> ref, idem |-> idem]

\* a step that sends no response
Silent == resp' = NoResp

\* uuid.uuid4(): an id that no row, job or request in flight holds
UsedIds ==
    {r.response_ref : r \in ledger} \cup {m.id : m \in msgLogs}
    \cup {req[p].ref : p \in ApiProcs} \cup {queue[i].ref : i \in 1..Len(queue)}
    \cup {r.id : r \in ruleRuns} \cup {t.id : t \in tasks}
    \cup UNION {wrk[w].dec.ids : w \in {x \in Workers : wrk[x].pc = "rule_commit"}}

Uuid4 ==
    "u" \o ToString(CHOOSE n \in 1..(Cardinality(UsedIds) + 1) :
                       /\ ("u" \o ToString(n)) \notin UsedIds
                       /\ \A m \in 1..(n - 1) : ("u" \o ToString(m)) \in UsedIds)

\* scalar_one_or_none() over idempotency_keys.key (unique)
LedgerRows(key) == {r \in ledger : r.key = key}
LedgerRow(key) == CHOOSE r \in ledger : r.key = key

\* a handler that executes without consulting the ledger
LedgerLookupSkipped(key, hash) == "miss"

\* a lookup by key alone, the request hashes not compared
LedgerLookupKeyOnly(key, hash) == IF LedgerRows(key) = {} THEN "miss" ELSE "replay"

\* The ledger lookup of gate_frames and send_message: no row, a row with
\* another request_hash (HTTP 409), or a row to replay.
LedgerLookup(key, hash) ==
    IF LedgerRows(key) = {} THEN "miss"
    ELSE IF LedgerRow(key).request_hash # hash THEN "conflict"
    ELSE "replay"

\* get_gate_session: the session row of a presented token
SessionsByToken(tok) == {s \in gateSess : s.token = tok}

\* config.py: the defaults, and the settings of the test suite
\* (tests/conftest.py, tests/test_messaging_rules.py)
Deployments ==
    {[gate_frame_cooldown_seconds |-> 1, provider_mode |-> "auto",
      messaging_mode |-> "mnotify"],
     [gate_frame_cooldown_seconds |-> 0, provider_mode |-> "mock",
      messaging_mode |-> "mock"]}

\* time passes
Tick ==
    /\ now < MaxTime
    /\ now' = now + 1
    /\ Silent
    /\ UNCHANGED <<notLedger, client, settings, ledger, recog, visits, msgLogs,
                   gateSess, tenantCfg, queue, delivered, req, wrk,
                   sessOpen, apiKey, smsCalls>>

\* session_factory() hands out a session; session.close() ends one
Opened(o) == [sessOpen EXCEPT ![o] = @ + 1]
Closed(o) == [sessOpen EXCEPT ![o] = IF @ > 0 THEN @ - 1 ELSE @]

\* The handler returns or raises: the response is sent and the session that
\* get_tenant_session yielded, if any, is closed by its finally clause.
Reply(p, status, ref, idem) ==
    /\ resp' = Response(status, ref, idem)
    /\ req' = [req EXCEPT ![p] = IdleReq]
    /\ sessOpen' = Closed(p)

\* ------------------------------------------------- POST /gate/auth/session
\* the GateAgentSession row gate_auth_session adds
IssuedSession(id, token, gate_id, bootstrap_token, t) ==
    [id |-> id, token |-> token, gate_id |-> gate_id, bootstrap |-> bootstrap_token,
     status |-> "active", issued_at |-> t, expires_at |-> t + GateSessionTtl,
     last_seen_at |-> t, last_frame_at |-> NoTime]

\* ------------------------------------------------------- POST /gate/frames
\* get_gate_session (auth.py): 0 when the token's session is accepted.
GateSessionStatus(tok, t) ==
    IF tok = NULL THEN 401
    ELSE IF SessionsByToken(tok) = {} THEN 401
    ELSE LET gs == CHOOSE s \in gateSess : s.token = tok
         IN  IF gs.status # "active" THEN 403
             ELSE IF gs.expires_at <= t THEN 401
             ELSE 0

\* a handler without the cooldown test
CooldownNever(gs, t) == FALSE

\* the cooldown test of gate_frames on the presenting session
CooldownActive(gs, t) ==
    /\ gs.last_frame_at # NoTime
    /\ settings.gate_frame_cooldown_seconds > 0
    /\ t - gs.last_frame_at < settings.gate_frame_cooldown_seconds

\* The checks of gate_frames that come before the ledger lookup, in the
\* order of the code; 0 when all pass.
FramesPrecheck(inp, t) ==
    IF GateSessionStatus(inp.tok, t) # 0 THEN GateSessionStatus(inp.tok, t)
    ELSE LET gs == CHOOSE s \in gateSess : s.token = inp.tok
         IN  IF UuidParse(inp.frame_id) = "invalid" THEN 422
             ELSE IF UuidParse(inp.gate_id) = "invalid" THEN 422
             ELSE IF gs.gate_id # UuidParse(inp.gate_id) THEN 403
             ELSE IF ~\E g \in Gates : g.id = UuidParse(inp.gate_id)
                                       /\ g.status = "active" THEN 403
             ELSE IF CooldownActive(gs, t) THEN 429
             ELSE IF ParseDatetime(inp.captured_at) = "invalid" THEN 422
             ELSE IF ParseMotion(inp.motion_score) = "invalid" THEN 422
             ELSE IF ParseOptionalBool(inp.face_present) = "invalid" THEN 422
             ELSE 0

FrameHash(inp) ==
    HashPayload(inp.frame_id, inp.gate_id, ParseDatetime(inp.captured_at),
                inp.image, ParseMotion(inp.motion_score),
                ParseOptionalBool(inp.face_present))

BaseFrame == [tok |-> NULL, frame_id |-> "f1", gate_id |-> "g1",
              captured_at |-> "10:00Z", image |-> "A", motion_score |-> NULL,
              face_present |-> "false"]

\* the arguments of recognition_job.delay(...)
RecognitionArgs(slug, inp, hash, job_id) ==
    [kind |-> "recognition", slug |-> slug,
     frame_id |-> UuidParse(inp.frame_id), gate_id |-> UuidParse(inp.gate_id),
     captured_at |-> ParseDatetime(inp.captured_at), request_hash |-> hash,
     ref |-> job_id, image_b64 |-> B64Encode(inp.image),
     session_id |-> (CHOOSE gs \in gateSess : gs.token = inp.tok).id,
     face_present |-> ParseOptionalBool(inp.face_present),
     motion_score |-> ParseMotion(inp.motion_score), body |-> NULL,
     rule_id |-> NULL]

\* gate_frames up to and including the ledger lookup
FramesBegin(p, inp, secret_ok) ==
    /\ req[p].pc = "idle"
    /\ IF ~secret_ok
       THEN Reply(p, 500, NULL, FALSE)
       ELSE IF FramesPrecheck(inp, now) # 0
       THEN Reply(p, FramesPrecheck(inp, now), NULL, FALSE)
       ELSE IF LedgerLookup(inp.frame_id, FrameHash(inp)) = "conflict"
       THEN Reply(p, 409, NULL, FALSE)
       ELSE IF LedgerLookup(inp.frame_id, FrameHash(inp)) = "replay"
       THEN Reply(p, 200, LedgerRow(inp.frame_id).response_ref, TRUE)
       ELSE /\ req' = [req EXCEPT ![p] =
                         [pc |-> "commit", op |-> "frames", key |-> inp.frame_id,
                          hash |-> FrameHash(inp), ref |-> Uuid4,
                          t |-> now, tok |-> inp.tok,
                          job |-> RecognitionArgs("grace", inp, FrameHash(inp),
                                                  Uuid4),
                          row |-> <<>>]]
            /\ sessOpen' = Opened(p)
            /\ Silent
    /\ UNCHANGED <<notLedger, client, now, settings, ledger, recog, visits, msgLogs, gateSess,
                   tenantCfg, queue, delivered, wrk, apiKey,
                   smsCalls>>

\* session.commit() of gate_frames: the ledger row and the session's
\* last_frame_at / last_seen_at in one transaction.  The unique constraint on
\* idempotency_keys.key raises IntegrityError, which the handler does not catch.
FramesCommit(p, db_ok) ==
    /\ req[p].pc = "commit"
    /\ req[p].op = "frames"
    /\ IF ~db_ok \/ LedgerRows(req[p].key) # {}
       THEN /\ Reply(p, 500, NULL, FALSE)
            /\ UNCHANGED <<ledger, gateSess>>
       ELSE /\ ledger' = ledger \cup
                  {[scope |-> "visit_event", key |-> req[p].key,
                    request_hash |-> req[p].hash, response_ref |-> req[p].ref,
                    status |-> "pending"]}
            /\ gateSess' = {IF s.token = req[p].tok
                            THEN [s EXCEPT !.last_frame_at = req[p].t,
                                           !.last_seen_at = req[p].t]
                            ELSE s : s \in gateSess}
            /\ req' = [req EXCEPT ![p].pc = "enqueue"]
            /\ Silent
            /\ UNCHANGED sessOpen
    /\ UNCHANGED <<notLedger, client, now, settings, recog, visits, msgLogs, tenantCfg,
                   queue, delivered, wrk, apiKey, smsCalls>>

\* recognition_job.delay(...) after the commit, then the response
FramesEnqueue(p, broker_ok) ==
    /\ req[p].pc = "enqueue"
    /\ req[p].op = "frames"
    /\ IF broker_ok
       THEN /\ queue' = Append(queue, req[p].job)
            /\ delivered' = Append(delivered, 0)
            /\ Reply(p, 200, req[p].ref, FALSE)
       ELSE /\ Reply(p, 500, NULL, FALSE)
            /\ UNCHANGED <<queue, delivered>>
    /\ UNCHANGED <<notLedger, client, now, settings, ledger, recog, visits, msgLogs,
                   gateSess, tenantCfg, wrk, apiKey, smsCalls>>

\* ------------------------------------------------------------ tenant_config
\* get_config_value(session, key, default): the stored value, else the
\* default; NoConf stands for None.  Confidences are in hundredths.
CfgValue(key, default) ==
    IF \E r \in tenantCfg : r.key = key
    THEN (CHOOSE r \in tenantCfg : r.key = key).value
    ELSE default

\* get_config_value inserts and commits a row for a default it hands out
CfgAfterRead(cfg, key, default) ==
    IF (\E r \in cfg : r.key = key) \/ default = NoConf
    THEN cfg
    ELSE cfg \cup {[key |-> key, value |-> default]}

\* a job that takes either configured value as it is
MinConfidenceUnscaled ==
    CfgValue("recognition_threshold",
             CfgValue("rekognition_min_confidence", DefaultMinConfidence))

\* recognition_job: the minimum confidence compared against
MinConfidence ==
    LET threshold == CfgValue("recognition_threshold", NoConf)
    IN  IF threshold # NoConf
        THEN (IF threshold <= 100 THEN threshold * 100 ELSE threshold)
        ELSE CfgValue("rekognition_min_confidence", DefaultMinConfidence)

\* ------------------------------------------------------------ Celery worker
\* What the face matching capability may answer to one recognize call.
FaceOutcomes ==
    {[kind |-> "not_configured", face_id |-> NULL, confidence |-> NoConf],
     [kind |-> "ensure_error", face_id |-> NULL, confidence |-> NoConf],
     [kind |-> "recognize_error", face_id |-> NULL, confidence |-> NoConf],
     [kind |-> "result", face_id |-> NULL, confidence |-> NoConf],
     [kind |-> "result", face_id |-> "faceX", confidence |-> 9500],
     [kind |-> "result", face_id |-> "faceX", confidence |-> 8000],
     [kind |-> "result", face_id |-> "faceGone", confidence |-> 9500]}

ActiveProfiles(face_id) ==
    {f \in FaceProfiles : f.face_id = face_id /\ f.status = "active"}

\* The decision of recognition_job for one provider answer.
Decide(face_present, out, min_confidence) ==
    LET base == [decision |-> "unknown", rejection_reason |-> NULL,
                 person_id |-> NULL, best_face_id |-> NULL,
                 best_confidence |-> NoConf, provider_code |-> NULL,
                 matches |-> {}]
    IN  IF face_present = "False"
        THEN [base EXCEPT !.rejection_reason = "no_face"]
        ELSE IF out.kind = "not_configured"
        THEN [base EXCEPT !.decision = "error", !.rejection_reason = "error",
                          !.provider_code = "rekognition_not_configured"]
        ELSE IF out.kind = "recognize_error"
        THEN [base EXCEPT !.decision = "error", !.rejection_reason = "error",
                          !.provider_code = "Exception"]
        ELSE LET seen == [base EXCEPT
                             !.best_face_id = out.face_id,
                             !.best_confidence = out.confidence,
                             !.matches = IF out.face_id = NULL THEN {}
                                         ELSE {<<out.face_id, out.confidence>>}]
             IN  IF out.face_id # NULL /\ out.confidence # NoConf
                 THEN IF out.confidence >= min_confidence
                      THEN IF ActiveProfiles(out.face_id) # {}
                           THEN [seen EXCEPT
                                   !.decision = "matched",
                                   !.person_id =
                                      (CHOOSE f \in ActiveProfiles(out.face_id) :
                                          TRUE).person_id]
                           ELSE [seen EXCEPT !.rejection_reason = "no_match"]
                      ELSE [seen EXCEPT !.rejection_reason = "below_threshold"]
                 ELSE [seen EXCEPT !.rejection_reason = "no_match"]

\* the job leaves the worker: `finally: session.close()`
WorkerDone(w) ==
    /\ wrk' = [wrk EXCEPT ![w] = IdleWrk]
    /\ sessOpen' = Closed(w)

\* The argument conversions a job makes after get_session and before its
\* try block: _parse_datetime and uuid.UUID raise ValueError.
JobArgsOk(job) ==
    IF job.kind = "recognition"
    THEN /\ ParseDatetime(job.captured_at) # "invalid"
         /\ UuidParse(job.gate_id) # "invalid"
         /\ UuidParse(job.frame_id) # "invalid"
         /\ (job.session_id = NULL \/ UuidParse(job.session_id) # "invalid")
    ELSE IF job.kind = "rule"
    THEN RuleIdParse(job.rule_id) # "invalid" /\ UuidParse(job.ref) # "invalid"
    ELSE UuidParse(job.ref) # "invalid"

\* A worker takes a queued job (the broker may deliver a job again).
\* _build_tenant_context may raise, get_session may raise SecretStoreError:
\* both end the job before any session exists.  A ValueError of the argument
\* conversions ends the job after get_session, outside try / finally.
JobStart(w, i, outcome) ==
    /\ wrk[w].pc = "idle"
    /\ i \in 1..Len(queue)
    /\ delivered[i] < MaxDeliveries
    /\ delivered' = [delivered EXCEPT ![i] = @ + 1]
    /\ IF outcome # "ok"
       THEN UNCHANGED <<wrk, sessOpen>>
       ELSE IF ~JobArgsOk(queue[i])
       THEN /\ sessOpen' = Opened(w)
            /\ UNCHANGED wrk
       ELSE /\ wrk' = [wrk EXCEPT ![w] = [pc |-> queue[i].kind, job |-> i,
                                          dec |-> <<>>]]
            /\ sessOpen' = Opened(w)
    /\ Silent
    /\ UNCHANGED <<notLedger, client, now, settings, ledger, recog, visits, msgLogs,
                   gateSess, tenantCfg, queue, req, apiKey, smsCalls>>

\* recognition_job from the configuration reads to the decision
RecogDecide(w, out) ==
    /\ wrk[w].pc = "recognition"
    /\ LET job == queue[wrk[w].job]
       IN  /\ tenantCfg' =
                CfgAfterRead(
                  IF CfgValue("recognition_threshold", NoConf) # NoConf
                  THEN tenantCfg
                  ELSE CfgAfterRead(tenantCfg, "rekognition_min_confidence",
                                    DefaultMinConfidence),
                  "dedupe_window_seconds", 300)
           /\ IF job.face_present # "False" /\ out.kind = "ensure_error"
              THEN WorkerDone(w)
              ELSE /\ wrk' = [wrk EXCEPT ![w].pc = "recog_commit",
                                         ![w].dec = Decide(job.face_present, out,
                                                            MinConfidence)]
                   /\ UNCHANGED sessOpen
    /\ Silent
    /\ UNCHANGED <<notLedger, client, now, settings, ledger, recog, visits, msgLogs,
                   gateSess, queue, delivered, req, apiKey, smsCalls>>

\* a job that keeps the encoded image in the metadata of its result
RecognitionRowWithImage(job, dec) ==
    [frame_id |-> job.frame_id, gate_id |-> job.gate_id,
     session_id |-> job.session_id, decision |-> dec.decision,
     rejection_reason |-> dec.rejection_reason,
     best_face_id |-> dec.best_face_id, best_confidence |-> dec.best_confidence,
     person_id |-> dec.person_id, provider_code |-> dec.provider_code,
     metadata_json |-> [job_id |-> job.ref, request_hash |-> job.request_hash,
                        face_present |-> job.face_present,
                        motion_score |-> job.motion_score,
                        matches |-> dec.matches, image_b64 |-> job.image_b64]]

\* RecognitionResult(...) of recognition_job
RecognitionRow(job, dec) ==
    [frame_id |-> job.frame_id, gate_id |-> job.gate_id,
     session_id |-> job.session_id, decision |-> dec.decision,
     rejection_reason |-> dec.rejection_reason,
     best_face_id |-> dec.best_face_id, best_confidence |-> dec.best_confidence,
     person_id |-> dec.person_id, provider_code |-> dec.provider_code,
     metadata_json |-> [job_id |-> job.ref, request_hash |-> job.request_hash,
                        face_present |-> job.face_present,
                        motion_score |-> job.motion_score,
                        matches |-> dec.matches]]

VisitRow(job, dec) ==
    [frame_id |-> job.frame_id, gate_id |-> job.gate_id,
     captured_at |-> job.captured_at, person_id |-> dec.person_id,
     status |-> IF dec.person_id # NULL THEN "matched" ELSE "unknown"]

\* tables without the unique constraints on frame_id
FrameNeverTaken(frame_id) == FALSE

\* unique constraints on recognition_results.frame_id, visit_events.frame_id
FrameTaken(frame_id) ==
    \/ \E r \in recog : r.frame_id = frame_id
    \/ \E v \in visits : v.frame_id = frame_id

\* recognition_job: the two inserts, the ledger update and the commit;
\* IntegrityError rolls the transaction back, `finally` closes the session.
RecogCommit(w, db_ok) ==
    /\ wrk[w].pc = "recog_commit"
    /\ LET job == queue[wrk[w].job]
       IN  IF ~db_ok \/ FrameTaken(job.frame_id)
           THEN UNCHANGED <<recog, visits, ledger>>
           ELSE /\ recog' = recog \cup {RecognitionRow(job, wrk[w].dec)}
                /\ visits' = visits \cup {VisitRow(job, wrk[w].dec)}
                /\ ledger' = {IF r.key = job.frame_id
                              THEN [r EXCEPT !.status = "succeeded",
                                             !.response_ref = job.ref]
                              ELSE r : r \in ledger}
    /\ WorkerDone(w)
    /\ Silent
    /\ UNCHANGED <<notLedger, client, now, settings, msgLogs, gateSess, tenantCfg,
                   queue, delivered, req, apiKey, smsCalls>>

\* --------------------------------------------------------- messaging tables
\* crypto.encrypt_text / decrypt_text (Fernet) and hash_text (HMAC)
Encrypt(text) == "enc(" \o text \o ")"
Decrypt(token) ==
    CASE token = Encrypt("+23355") -> "+23355"
      [] OTHER -> "invalid"
HashText(text) == "hmac(" \o text \o ")"

\* crypto.normalize_phone: keep digits and "+", ValueError when nothing is left
NormalizePhone(phone) ==
    CASE phone = "+233 55" -> "+23355"
      [] phone = "+23355" -> "+23355"
      [] OTHER -> "invalid"

\* table people
People ==
    {[id |-> "p1", consent_status |-> "consented",
      phone_enc |-> Encrypt("+23355"), phone_hash |-> HashText("+23355")],
     [id |-> "p2", consent_status |-> "unknown",
      phone_enc |-> Encrypt("+23355"), phone_hash |-> HashText("+23355")],
     [id |-> "p3", consent_status |-> "consented",
      phone_enc |-> NULL, phone_hash |-> NULL]}

\* table message_templates
Templates == {[id |-> "tpl1", active |-> TRUE], [id |-> "tpl2", active |-> FALSE]}

\* uuid.UUID(text) for person and template ids
IdParse(text) ==
    IF text \in {"p1", "p2", "p3", "p9", "tpl1", "tpl2"} THEN text ELSE "invalid"

\* _render_template of template tpl1, body "Hi {first_name}"
RenderTemplate(context) ==
    IF context = NULL THEN "invalid" ELSE "Hi " \o context

\* _hash_message_payload (main.py): json.dumps of the dict, keys sorted
JsonText(value) == IF value = NULL THEN "null" ELSE "\"" \o value \o "\""
MessageHash(person_id, to_phone_hash, template_id, channel, body) ==
    Sha256("{body:" \o JsonText(body) \o ",channel:" \o JsonText(channel)
           \o ",person_id:" \o JsonText(person_id)
           \o ",template_id:" \o JsonText(template_id)
           \o ",to_phone_hash:" \o JsonText(to_phone_hash) \o "}")

BaseMessage == [key |-> "k1", channel |-> NULL, person_id |-> NULL,
                to_phone |-> "+233 55", template_id |-> NULL, body |-> "hi",
                context |-> NULL]

PersonRows(id) == {q \in People : q.id = id}

\* The checks of send_message that come before the request hash, in the
\* order of the code; 0 when all pass.
SendPrecheck(inp) ==
    IF inp.channel # NULL /\ inp.channel # "sms" THEN 422
    ELSE IF inp.person_id = NULL /\ inp.to_phone = NULL THEN 422
    ELSE IF inp.person_id # NULL /\ inp.to_phone # NULL THEN 422
    ELSE IF inp.person_id # NULL /\ IdParse(inp.person_id) = "invalid" THEN 422
    ELSE IF inp.person_id # NULL /\ PersonRows(inp.person_id) = {} THEN 404
    ELSE IF inp.person_id # NULL
            /\ (CHOOSE q \in People : q.id = inp.person_id).consent_status
               # "consented" THEN 403
    ELSE IF inp.person_id # NULL
            /\ (CHOOSE q \in People : q.id = inp.person_id).phone_enc = NULL
         THEN 422
    ELSE IF inp.person_id = NULL /\ NormalizePhone(inp.to_phone) = "invalid"
         THEN 500
    ELSE IF inp.template_id # NULL /\ IdParse(inp.template_id) = "invalid"
         THEN 422
    ELSE IF inp.template_id # NULL
            /\ ~\E tp \in Templates : tp.id = inp.template_id /\ tp.active
         THEN 404
    ELSE IF inp.template_id # NULL /\ RenderTemplate(inp.context) = "invalid"
         THEN 422
    ELSE IF inp.template_id = NULL /\ inp.body = NULL THEN 422
    ELSE 0

MessageBody(inp) ==
    IF inp.template_id # NULL THEN RenderTemplate(inp.context) ELSE inp.body

MessagePhoneEnc(inp) ==
    IF inp.person_id # NULL
    THEN (CHOOSE q \in People : q.id = inp.person_id).phone_enc
    ELSE Encrypt(NormalizePhone(inp.to_phone))

MessagePhoneHash(inp) ==
    IF inp.person_id # NULL
    THEN (CHOOSE q \in People : q.id = inp.person_id).phone_hash
    ELSE HashText(NormalizePhone(inp.to_phone))

\* the request_hash of send_message for a request that passed the checks
SendHash(inp) ==
    MessageHash(inp.person_id, MessagePhoneHash(inp), inp.template_id,
                IF inp.channel = NULL THEN "sms" ELSE inp.channel,
                MessageBody(inp))

MessageKey(idempotency_key) == "message_send:" \o idempotency_key

\* the arguments of send_message_job.delay(...)
SendArgs(slug, log_id, body) ==
    [kind |-> "send_message", slug |-> slug, frame_id |-> NULL,
     gate_id |-> NULL, captured_at |-> NULL, request_hash |-> Sha256(""),
     ref |-> log_id, image_b64 |-> NULL, session_id |-> NULL,
     face_present |-> NULL, motion_score |-> NULL, body |-> body,
     rule_id |-> NULL]

NewMessageLog(log_id, inp) ==
    [id |-> log_id, person_id |-> inp.person_id, template_id |-> inp.template_id,
     channel |-> IF inp.channel = NULL THEN "sms" ELSE inp.channel,
     to_phone_enc |-> MessagePhoneEnc(inp), to_phone_hash |-> MessagePhoneHash(inp),
     status |-> "queued", error_code |-> NULL, provider_message_id |-> NULL,
     created_at |-> now]

\* ----------------------------------------------------- POST /messages/send
\* send_message up to and including the ledger lookup and the flush of the
\* new MessageLog (still uncommitted)
SendBegin(p, inp, secret_ok) ==
    /\ req[p].pc = "idle"
    /\ IF ~secret_ok
       THEN Reply(p, 500, NULL, FALSE)
       ELSE IF SendPrecheck(inp) # 0
       THEN Reply(p, SendPrecheck(inp), NULL, FALSE)
       ELSE IF inp.key # NULL
               /\ LedgerLookup(MessageKey(inp.key), SendHash(inp)) = "conflict"
       THEN Reply(p, 409, NULL, FALSE)
       ELSE IF inp.key # NULL
               /\ LedgerLookup(MessageKey(inp.key), SendHash(inp)) = "replay"
       THEN Reply(p, 200, LedgerRow(MessageKey(inp.key)).response_ref, TRUE)
       ELSE /\ req' = [req EXCEPT ![p] =
                         [pc |-> "commit", op |-> "send",
                          key |-> IF inp.key = NULL THEN NULL
                                  ELSE MessageKey(inp.key),
                          hash |-> SendHash(inp), ref |-> Uuid4,
                          t |-> now, tok |-> NULL,
                          job |-> SendArgs("grace", Uuid4,
                                           MessageBody(inp)),
                          row |-> NewMessageLog(Uuid4, inp)]]
            /\ sessOpen' = Opened(p)
            /\ Silent
    /\ UNCHANGED <<notLedger, client, now, settings, ledger, recog, visits, msgLogs, gateSess,
                   tenantCfg, apiKey, smsCalls, queue, delivered, wrk>>

\* session.commit() of send_message: the MessageLog and, with an
\* Idempotency-Key, the ledger row in one transaction
SendCommit(p, db_ok) ==
    /\ req[p].pc = "commit"
    /\ req[p].op = "send"
    /\ IF ~db_ok \/ (req[p].key # NULL /\ LedgerRows(req[p].key) # {})
       THEN /\ Reply(p, 500, NULL, FALSE)
            /\ UNCHANGED <<ledger, msgLogs>>
       ELSE /\ msgLogs' = msgLogs \cup {req[p].row}
            /\ ledger' = IF req[p].key = NULL THEN ledger
                         ELSE ledger \cup
                                {[scope |-> "message_send", key |-> req[p].key,
                                  request_hash |-> req[p].hash,
                                  response_ref |-> req[p].ref,
                                  status |-> "accepted"]}
            /\ req' = [req EXCEPT ![p].pc = "enqueue"]
            /\ Silent
            /\ UNCHANGED sessOpen
    /\ UNCHANGED <<notLedger, client, now, settings, recog, visits, gateSess, tenantCfg,
                   apiKey, smsCalls, queue, delivered, wrk>>

\* send_message_job.delay(...) after the commit, then the response
SendEnqueue(p, broker_ok) ==
    /\ req[p].pc = "enqueue"
    /\ req[p].op = "send"
    /\ IF broker_ok
       THEN /\ queue' = Append(queue, req[p].job)
            /\ delivered' = Append(delivered, 0)
            /\ Reply(p, 200, req[p].ref, FALSE)
       ELSE /\ Reply(p, 500, NULL, FALSE)
            /\ UNCHANGED <<queue, delivered>>
    /\ UNCHANGED <<notLedger, client, now, settings, ledger, recog, visits, msgLogs,
                   gateSess, tenantCfg, apiKey, smsCalls, wrk>>

\* ---------------------------------------------------------- send_message_job
MessageLogRows(id) == {m \in msgLogs : m.id = id}

\* What send_sms of the configured provider may return: the mock provider
\* always reports sent, MNotifyProvider one of its result codes.
SmsResults ==
    IF settings.messaging_mode = "mnotify"
    THEN {"sent", "timeout", "rejected", "retryable_error", "unknown_error"}
    ELSE {"sent"}

\* send_message_job's checks before the provider call: the error code of
\* a terminal failure, "skip" for a no-op, "call" when send_sms is invoked.
SendJobPlan(job) ==
    IF MessageLogRows(job.ref) = {} THEN "skip"
    ELSE LET log == CHOOSE m \in msgLogs : m.id = job.ref
             enc == IF log.to_phone_enc = NULL /\ log.person_id # NULL
                       /\ PersonRows(log.person_id) # {}
                    THEN (CHOOSE q \in People : q.id = log.person_id).phone_enc
                    ELSE log.to_phone_enc
         IN  IF log.status \notin {"queued", "retry"} THEN "skip"
             ELSE IF job.body = NULL THEN "missing_body"
             ELSE IF enc = NULL THEN "missing_phone"
             ELSE IF Decrypt(enc) = "invalid" THEN "decrypt_error"
             ELSE IF settings.provider_mode # "mock" /\ apiKey = NULL
                  THEN "messaging_not_configured"
             ELSE "call"

SetLog(logs, id, status, error_code, provider_message_id) ==
    {IF m.id = id
     THEN [m EXCEPT !.status = status, !.error_code = error_code,
                    !.provider_message_id = provider_message_id]
     ELSE m : m \in logs}

\* send_message_job from loading the MessageLog to the provider call: the
\* early exits commit their terminal failure and return through `finally`.
SendPrepare(w, db_ok) ==
    /\ wrk[w].pc = "send_message"
    /\ LET job == queue[wrk[w].job]
           plan == SendJobPlan(job)
       IN  IF plan = "call"
           THEN /\ wrk' = [wrk EXCEPT ![w].pc = "send_call"]
                /\ UNCHANGED <<msgLogs, sessOpen>>
           ELSE /\ msgLogs' = IF plan = "skip" \/ ~db_ok THEN msgLogs
                              ELSE SetLog(msgLogs, job.ref, "failed", plan, NULL)
                /\ WorkerDone(w)
    /\ Silent
    /\ UNCHANGED <<notLedger, client, now, settings, ledger, recog, visits, gateSess,
                   tenantCfg, apiKey, smsCalls, queue, delivered,
                   req>>

\* provider.send_sms(...), then the MessageLog and ledger updates and the
\* commit; a failing commit leaves the rows as they were.
SendCall(w, result, db_ok) ==
    /\ wrk[w].pc = "send_call"
    /\ result \in SmsResults
    /\ LET job == queue[wrk[w].job]
       IN  /\ smsCalls' = Append(smsCalls, job.ref)
           /\ IF db_ok
              THEN /\ msgLogs' = SetLog(msgLogs, job.ref,
                                        IF result = "sent" THEN "sent" ELSE "failed",
                                        IF result = "sent" THEN NULL ELSE result,
                                        IF result = "sent" THEN "pm" ELSE NULL)
                   /\ ledger' = {IF r.response_ref = job.ref
                                    /\ r.scope = "message_send"
                                 THEN [r EXCEPT !.status =
                                         IF result = "sent" THEN "succeeded"
                                         ELSE "failed"]
                                 ELSE r : r \in ledger}
              ELSE UNCHANGED <<msgLogs, ledger>>
    /\ WorkerDone(w)
    /\ Silent
    /\ UNCHANGED <<notLedger, client, now, settings, recog, visits, gateSess, tenantCfg,
                   apiKey, queue, delivered, req>>


\* ================================================== tenant registry client
\* One TenantRegistryClient (get_registry_client is memoized per process).
\* Its callers in this repository run one call at a time: the tenant
\* resolution middleware is a coroutine that calls the synchronous get_tenant
\* on the event loop, and a Celery prefork worker runs one task at a time.
\* A get_tenant call is therefore one step.

\* bounds of the registry part
MaxClock == 3
MaxRun == 2

\* settings.tenant_registry_cache_ttl_seconds (30 s), in model clock ticks
DefaultCacheTtl == 2

\* the slugs callers pass
RawSlugs == {"grace", " Grace ", "hope"}

\* slug.strip().lower()
Normalize(raw) == IF raw = " Grace " THEN "grace" ELSE raw

Slugs == {Normalize(raw) : raw \in RawSlugs}

DbHosts == {"db-1", "db-2"}

\* the body of a 200 answer of GET /v1/tenants/resolve, as _fetch_tenant
\* turns it into a TenantRegistryRecord (db_port through str())
TenantRegistryRecord(slug, host) ==
    [tenant_id |-> "t-" \o slug, slug |-> slug, db_name |-> "tenant_" \o slug,
     db_host |-> host, db_port |-> ToString(5432), db_user |-> "tenant_" \o slug,
     secret_ref |-> "local:tenant_db:" \o slug]

\* no record: None
NoRecord ==
    [tenant_id |-> NULL, slug |-> NULL, db_name |-> NULL, db_host |-> NULL,
     db_port |-> NULL, db_user |-> NULL, secret_ref |-> NULL]

\* json: the body is the tenant JSON of a 200 answer
HttpAnswer(status_code, record) ==
    [kind |-> "response", status_code |-> status_code,
     json |-> (status_code = 200), record |-> record]

\* the httpx call does not return: connect error, timeout, ...
TransportError ==
    [kind |-> "transport_error", status_code |-> 0, json |-> FALSE, record |-> NoRecord]

\* what the control plane (or the network in front of it) can answer
UpstreamAnswers(slug) ==
    {HttpAnswer(200, TenantRegistryRecord(slug, h)) : h \in DbHosts}
        \cup {HttpAnswer(404, NoRecord), HttpAnswer(403, NoRecord),
              HttpAnswer(500, NoRecord), HttpAnswer(302, NoRecord), TransportError}

NoEntry == [expiry |-> NoTime, record |-> NoRecord]

NoLookup ==
    [raw |-> NULL, calls |-> 0, kind |-> "none", error |-> NULL,
     status_code |-> 0, record |-> NoRecord, http |-> 0]

Returned(record) ==
    [kind |-> "record", error |-> NULL, status_code |-> 0, record |-> record]

Raised(error, status_code) ==
    [kind |-> "raised", error |-> error, status_code |-> status_code,
     record |-> NoRecord]

\* max(cache_ttl_seconds, 0)
Ttl == IF cache_ttl_seconds > 0 THEN cache_ttl_seconds ELSE 0

\* an entry whose expiry is not after the clock is not served any more
CacheFreshInclusive(entry, t) == entry.expiry # NoTime /\ entry.expiry >= t

\* `cached and cached[0] > now`
CacheFresh(entry, t) == entry.expiry # NoTime /\ entry.expiry > t

\* _fetch_tenant: one GET; 404 and the other statuses from 400 up are turned
\* into TenantRegistryError, an exception of httpx is not caught, and any
\* other answer is read as the tenant JSON.
FetchTenant(answer) ==
    IF answer.kind = "transport_error"
    THEN Raised("httpx.TransportError", 0)
    ELSE IF answer.status_code = 404
    THEN Raised("TenantRegistryError", 404)
    ELSE IF answer.status_code >= 400
    THEN Raised("TenantRegistryError", 502)
    ELSE IF ~answer.json
    THEN Raised("JSONDecodeError", 0)
    ELSE Returned(answer.record)

\* every outcome of the fetch leaves an entry behind
StoreAlways(slug, outcome, t) ==
    IF Ttl > 0
    THEN [cache EXCEPT ![slug] = [expiry |-> t + Ttl, record |-> outcome.record]]
    ELSE cache

\* the assignment after _fetch_tenant: skipped when it raised, and when the
\* TTL is 0
Store(slug, outcome, t) ==
    IF outcome.kind = "record" /\ Ttl > 0
    THEN [cache EXCEPT ![slug] = [expiry |-> t + Ttl, record |-> outcome.record]]
    ELSE cache

\* a middleware that goes on to the route handler however the resolution ended
MiddlewareStatusIgnored(outcome) == 0

\* resolve_tenant_from_request under tenant_resolution_middleware: a
\* TenantRegistryError becomes an HTTPException with its status, which the
\* middleware answers; any other exception leaves the middleware and is
\* answered 500 by the server; 0 stands for "the route handler is called".
MiddlewareStatus(outcome) ==
    IF outcome.kind = "record" THEN 0
    ELSE IF outcome.error = "TenantRegistryError" THEN outcome.status_code
    ELSE 500

RunAfter(slug, outcome) ==
    IF outcome.kind = "raised" /\ outcome.error = "TenantRegistryError"
           /\ outcome.status_code = 404
    THEN [notFoundRun EXCEPT ![slug] = IF @ < MaxRun THEN @ + 1 ELSE @]
    ELSE [notFoundRun EXCEPT ![slug] = 0]

\* get_tenant: what the call does to the client and how it ends
GetTenantCall(raw) ==
    LET slug == Normalize(raw)
        cached == cache[slug]
        t == clock
    IN  IF CacheFresh(cached, t)
        THEN /\ lookup' = Returned(cached.record) @@
                          [raw |-> raw, calls |-> 0,
                           http |-> MiddlewareStatus(Returned(cached.record))]
             /\ UNCHANGED <<clock, cache_ttl_seconds, cache, directory,
                            notFoundRun>>
        ELSE LET outcome == FetchTenant(directory[slug])
             IN  /\ cache' = Store(slug, outcome, t)
                 /\ lookup' = outcome @@ [raw |-> raw, calls |-> 1,
                                          http |-> MiddlewareStatus(outcome)]
                 /\ notFoundRun' = RunAfter(slug, outcome)
                 /\ UNCHANGED <<clock, cache_ttl_seconds, directory>>

\* a get_tenant call of any caller
GetTenant(raw) ==
    /\ GetTenantCall(raw)
    /\ UNCHANGED notRegistry

\* the control plane's answer for a slug changes (tenant provisioned, moved,
\* removed; control plane or network down)
DirectoryChange(slug, answer) ==
    /\ answer \notin {directory[slug]}
    /\ directory' = [directory EXCEPT ![slug] = answer]
    /\ notFoundRun' = [notFoundRun EXCEPT ![slug] = 0]
    /\ lookup' = NoLookup
    /\ UNCHANGED <<notRegistry, clock, cache_ttl_seconds, cache>>

ClockTick ==
    /\ clock < MaxClock
    /\ clock' = clock + 1
    /\ lookup' = NoLookup
    /\ UNCHANGED <<notRegistry, cache_ttl_seconds, cache, directory, notFoundRun>>

\* a freshly constructed client; the TTL setting may be negative, 0 or the
\* default
RegistryInit ==
    /\ clock = 0
    /\ cache_ttl_seconds \in {-1, 0, DefaultCacheTtl}
    /\ cache = [s \in Slugs |-> NoEntry]
    /\ directory \in [Slugs -> UNION {UpstreamAnswers(s) : s \in Slugs}]
    /\ \A s \in Slugs : directory[s] \in UpstreamAnswers(s)
    /\ lookup = NoLookup
    /\ notFoundRun = [s \in Slugs |-> 0]

\* ================================================= tenant session manager
\* One TenantSessionManager (get_session_manager is memoized per process).
\* get_tenant_session is a synchronous dependency, so the API's request
\* threads call get_session concurrently; each statement group of
\* get_session is one step.
Threads == ApiProcs

\* the contexts the registry hands out: two tenants on one database server,
\* the first of them also under another secret reference
Contexts ==
    LET grace == TenantRegistryRecord("grace", "db-1")
    IN  {grace,
         [grace EXCEPT !.secret_ref = "env:GRACE_DB"],
         TenantRegistryRecord("hope", "db-1")}

\* SecretStore.get: the password kept under a reference
SecretStoreGet(secret_ref) ==
    CASE secret_ref = "local:tenant_db:grace" -> "pw grace"
      [] secret_ref = "env:GRACE_DB" -> "pw grace"
      [] OTHER -> "pw/hope"

\* urllib.parse.quote_plus
QuotePlus(text) ==
    CASE text = "pw grace" -> "pw+grace"
      [] text = "pw/hope" -> "pw%2Fhope"
      [] OTHER -> text

\* _normalize_host: outside dev the host as given; in dev a host that does
\* not resolve is replaced by localhost
NormalizeHost(host) ==
    IF env # "dev" THEN host
    ELSE IF host \in dns THEN host
    ELSE "localhost"

TenantDbConfig(context, password) ==
    [host |-> NormalizeHost(context.db_host), port |-> context.db_port,
     name |-> context.db_name, user |-> context.db_user, password |-> password]

\* a key made of the server address alone
CacheKeyOfServer(config, secret_ref) == config.host \o ":" \o config.port

\* f"{config.host}:{config.port}:{config.name}:{config.user}:{context.secret_ref}"
CacheKey(config, secret_ref) ==
    config.host \o ":" \o config.port \o ":" \o config.name \o ":"
        \o config.user \o ":" \o secret_ref

BuildUrl(config) ==
    "postgresql+psycopg://" \o QuotePlus(config.user) \o ":"
        \o QuotePlus(config.password) \o "@" \o config.host \o ":"
        \o config.port \o "/" \o config.name

NoSession == [thread |-> NULL, context |-> NULL, cache_key |-> NULL, factory |-> 0]

IdleCall == [pc |-> "idle", context |-> NULL, config |-> NULL,
             cache_key |-> NULL, factory |-> 0]

\* the lock is not consulted
LockIgnored == TRUE

\* `with self._lock:` is entered only while no thread holds the lock
LockFree == lock = NULL

Cached(cache_key) == {e \in engine_cache : e.key = cache_key}

\* get_session up to the lock: the secret is fetched, the host normalized and
\* the cache key computed; a SecretStoreError ends the call
SessionBegin(t, context, secret_ok) ==
    /\ call[t].pc = "idle"
    /\ IF secret_ok
       THEN LET config == TenantDbConfig(context, SecretStoreGet(context.secret_ref))
            IN  call' = [call EXCEPT ![t] =
                            [pc |-> "lock", context |-> context, config |-> config,
                             cache_key |-> CacheKey(config, context.secret_ref),
                             factory |-> 0]]
       ELSE UNCHANGED call
    /\ UNCHANGED <<notManager, env, dns, engine_cache, factories, lock>>
    /\ returned' = NoSession

\* entering the `with self._lock:` block
SessionLock(t) ==
    /\ call[t].pc = "lock"
    /\ LockFree
    /\ lock' = t
    /\ call' = [call EXCEPT ![t].pc = "get"]
    /\ UNCHANGED <<notManager, env, dns, engine_cache, factories>>
    /\ returned' = NoSession

\* self._engine_cache.get(cache_key); a hit leaves the block
SessionGet(t) ==
    /\ call[t].pc = "get"
    /\ IF Cached(call[t].cache_key) # {}
       THEN /\ call' = [call EXCEPT ![t].pc = "return",
                                    ![t].factory =
                                        (CHOOSE e \in Cached(call[t].cache_key) :
                                            TRUE).factory]
            /\ lock' = NULL
       ELSE /\ call' = [call EXCEPT ![t].pc = "create"]
            /\ UNCHANGED lock
    /\ UNCHANGED <<notManager, env, dns, engine_cache, factories>>
    /\ returned' = NoSession

\* create_engine, sessionmaker and the store into the cache, then the block
\* is left
SessionCreate(t) ==
    /\ call[t].pc = "create"
    /\ factories' = Append(factories, [url |-> BuildUrl(call[t].config)])
    /\ engine_cache' = (engine_cache \ Cached(call[t].cache_key))
                          \cup {[key |-> call[t].cache_key,
                                 factory |-> Len(factories) + 1]}
    /\ call' = [call EXCEPT ![t].pc = "return", ![t].factory = Len(factories) + 1]
    /\ lock' = NULL
    /\ UNCHANGED <<notManager, env, dns>>
    /\ returned' = NoSession

\* return session_factory()
SessionReturn(t) ==
    /\ call[t].pc = "return"
    /\ returned' = [thread |-> t, context |-> call[t].context,
                     cache_key |-> call[t].cache_key, factory |-> call[t].factory]
    /\ call' = [call EXCEPT ![t] = IdleCall]
    /\ UNCHANGED <<notManager, env, dns, engine_cache, factories, lock>>

\* a process in dev or not, on a machine that resolves the database host
\* or does not
ManagerInit ==
    /\ env \in {"dev", "prod"}
    /\ dns \in SUBSET {"db-1"}
    /\ engine_cache = {}
    /\ factories = <<>>
    /\ lock = NULL
    /\ call = [t \in Threads |-> IdleCall]
    /\ returned = NoSession

\* ====================================================== tenant resolution
\* tenant_resolution_middleware runs on the event loop and calls the
\* synchronous resolve_tenant_from_request, so one request is resolved at a
\* time: the middleware up to call_next (or its own answer) is one step.

\* request.headers.get("host"), NULL when the header is missing
HostHeaders ==
    {NULL, "grace.example.com", "Hope.example.com:8000", "localhost:8000",
     "127.0.0.1", "10.0.0.7:80", "gracechurch", ".example.com"}

\* request.headers.get("x-tenant-slug"), NULL when the header is missing
SlugHeaders == {NULL, "", " Grace ", "hope"}

Methods == {"GET", "OPTIONS"}

Paths == {"/v1/tenant-info", "/healthz", "/docs/oauth2-redirect"}

\* the requests served: every pair of headers on a tenant route, and a few
\* of them on the other routes and for the other method
Requests ==
    {r \in [method : Methods, path : Paths, host : HostHeaders,
            x_tenant_slug : SlugHeaders] :
        \/ r.method = "GET" /\ r.path = "/v1/tenant-info"
        \/ r.host \in {NULL, "grace.example.com"} /\ r.x_tenant_slug \in {NULL, "hope"}}

\* host_header.split(":", 1)[0].lower(), of "" when the header is missing
HostOf(host_header) ==
    CASE host_header = NULL -> ""
      [] host_header = "Hope.example.com:8000" -> "hope.example.com"
      [] host_header = "localhost:8000" -> "localhost"
      [] host_header = "10.0.0.7:80" -> "10.0.0.7"
      [] OTHER -> host_header

\* ipaddress.ip_address(host) does not raise
IsIpAddress(host) == host \in {"127.0.0.1", "10.0.0.7"}

\* "." in host
HasDot(host) ==
    host \in {"grace.example.com", "hope.example.com", "127.0.0.1", "10.0.0.7",
              ".example.com"}

\* host.split(".", 1)[0]
FirstLabel(host) ==
    CASE host = "grace.example.com" -> "grace"
      [] host = "hope.example.com" -> "hope"
      [] host = "127.0.0.1" -> "127"
      [] host = "10.0.0.7" -> "10"
      [] host = ".example.com" -> ""
      [] OTHER -> host

SlugFound(slug) == [status_code |-> 0, slug |-> slug]

\* TenantResolutionError(..., status_code=400)
SlugRefused == [status_code |-> 400, slug |-> NULL]

\* a resolution that takes the header whatever the environment is
ResolveSlugHeaderFirst(request, environment) ==
    IF request.x_tenant_slug \notin {NULL, ""}
    THEN SlugFound(Normalize(request.x_tenant_slug))
    ELSE LET host == HostOf(request.host)
         IN  IF host = "" \/ ~HasDot(host) THEN SlugRefused
             ELSE SlugFound(FirstLabel(host))

\* _resolve_slug
ResolveSlug(request, environment) ==
    IF environment = "dev" /\ request.x_tenant_slug \notin {NULL, ""}
    THEN SlugFound(Normalize(request.x_tenant_slug))
    ELSE LET host == HostOf(request.host)
         IN  IF host = "" THEN SlugRefused
             ELSE IF host \in {"localhost", "127.0.0.1"} THEN SlugRefused
             ELSE IF IsIpAddress(host) THEN SlugRefused
             ELSE IF ~HasDot(host) THEN SlugRefused
             ELSE IF FirstLabel(host) = "" THEN SlugRefused
             ELSE SlugFound(FirstLabel(host))

\* the paths the middleware lets through without a tenant: /healthz,
\* /metrics and what starts with /docs, /openapi or /redoc
Allowlisted(path) ==
    path \in {"/healthz", "/metrics", "/docs", "/docs/oauth2-redirect",
              "/openapi.json", "/redoc"}

\* TenantContext(...) of resolve_tenant_from_request: the record, field by field
TenantContext(record) ==
    [tenant_id |-> record.tenant_id, slug |-> record.slug,
     db_name |-> record.db_name, db_host |-> record.db_host,
     db_port |-> record.db_port, db_user |-> record.db_user,
     secret_ref |-> record.secret_ref]

\* what became of a request: state is the resolution state it ended in, slug
\* the slug passed to get_tenant, tenant is request.state.tenant, status the
\* answer of the middleware itself (0: none, the request went on through
\* call_next), handler tells whether a route handler ran, calls counts the
\* get_tenant calls made for it
Served(request, state, slug, tenant, status, handler, calls) ==
    [request |-> request, state |-> state, slug |-> slug, tenant |-> tenant,
     status |-> status, handler |-> handler, calls |-> calls]

NoServed ==
    Served([method |-> NULL, path |-> NULL, host |-> NULL, x_tenant_slug |-> NULL],
           "none", NULL, NoRecord, 0, FALSE, 0)

\* call_next(request): the routes are registered for GET and POST, so an
\* OPTIONS request is answered by the CORS middleware or with 405 by the
\* router and no route handler runs
RouteHandlerRuns(request) == request.method # "OPTIONS"

\* tenant_resolution_middleware
Middleware(request) ==
    IF request.method = "OPTIONS" \/ Allowlisted(request.path)
    THEN /\ served' = Served(request, "unresolved", NULL, NoRecord, 0,
                             RouteHandlerRuns(request), 0)
         /\ lookup' = NoLookup
         /\ UNCHANGED <<notRouting, clock, cache_ttl_seconds, cache, directory,
                        notFoundRun>>
    ELSE LET found == ResolveSlug(request, env)
         IN  IF found.status_code # 0
             THEN /\ served' = Served(request, "rejected", NULL, NoRecord,
                                      found.status_code, FALSE, 0)
                  /\ lookup' = NoLookup
                  /\ UNCHANGED <<notRouting, clock, cache_ttl_seconds, cache,
                                 directory, notFoundRun>>
             ELSE /\ GetTenantCall(found.slug)
                  /\ served' =
                        IF lookup'.http = 0
                        THEN Served(request, "resolved", found.slug,
                                    TenantContext(lookup'.record), 0,
                                    RouteHandlerRuns(request), 1)
                        ELSE Served(request, "rejected", found.slug, NoRecord,
                                    lookup'.http, FALSE, 1)
                  /\ UNCHANGED notRouting

RoutingInit == served = NoServed

DeployInit == bootstrap = [p \in ApiProcs |-> BootstrapToken]

\* =========================================================== gate sessions
\* POST /gate/auth/session and POST /gate/heartbeat.  a1 and a2 serve
\* requests concurrently; each reads the settings of the process it runs in
\* (get_settings is memoized per process), and the processes of a deployment
\* are restarted one at a time when GATE_BOOTSTRAP_TOKEN is changed.
BootstrapTokens == {"boot", "boot2"}

\* process p is restarted with the new GATE_BOOTSTRAP_TOKEN once the request
\* it serves is done
Redeploy(p, token) ==
    /\ req[p].pc = "idle"
    /\ bootstrap[p] = BootstrapToken
    /\ token \in BootstrapTokens \ {BootstrapToken}
    /\ bootstrap' = [bootstrap EXCEPT ![p] = token]
    /\ Silent
    /\ UNCHANGED <<registryVars, managerVars, routingVars, faceVars, ruleVars, provVars, txnVars, mnotifyVars, lookupVars,
                   client, now, settings,
                   ledger, recog, visits, msgLogs, gateSess, tenantCfg, queue,
                   delivered, wrk, apiKey, smsCalls, req, sessOpen>>

\* a lookup that finds no session for any bootstrap token
BootstrapNeverUsed(bootstrap_token) == {}

\* select(GateAgentSession).where(bootstrap_token_hash == bootstrap_hash)
BootstrapUsed(bootstrap_token) == {s \in gateSess : s.bootstrap = bootstrap_token}

\* The checks of gate_auth_session, in the order of the code; 0 when all pass.
AuthPrecheck(p, inp) ==
    IF inp.gate_id = NULL THEN 422
    ELSE IF inp.bootstrap_token = NULL THEN 422
    ELSE IF UuidParse(inp.gate_id) = "invalid" THEN 422
    ELSE IF ~\E g \in Gates : g.id = UuidParse(inp.gate_id) /\ g.status = "active"
         THEN 403
    ELSE IF inp.bootstrap_token # bootstrap[p] THEN 401
    ELSE IF BootstrapUsed(inp.bootstrap_token) # {} THEN 409
    ELSE 0

\* secrets.token_urlsafe(32) and uuid.uuid4() of a new session: the number of
\* a token and an id that no session, committed or about to be, holds
NewSessionNo ==
    LET used == {s.id : s \in gateSess}
                    \cup {req[q].row.new.id : q \in {x \in ApiProcs : req[x].op = "auth"}}
    IN  CHOOSE n \in 1..(Cardinality(used) + 1) :
            /\ ("s" \o ToString(n)) \notin used
            /\ \A m \in 1..(n - 1) : ("s" \o ToString(m)) \in used

\* the rows the UPDATE ... WHERE gate_id = :gate AND status = 'active' of
\* gate_auth_session reaches: the committed rows of its statement snapshot
ActiveSessions(gate_id) ==
    {s.id : s \in {x \in gateSess : x.gate_id = gate_id /\ x.status = "active"}}

AuthInputs ==
    {[gate_id |-> "g1", bootstrap_token |-> tk] :
        tk \in BootstrapTokens \cup {"wrong", NULL}}
        \cup {[gate_id |-> g, bootstrap_token |-> BootstrapToken] :
                 g \in {"g2", "f2", "not-a-uuid", NULL}}

\* gate_auth_session up to the commit: the checks, the UPDATE that revokes
\* and the new session added to the transaction
AuthBegin(p, inp, secret_ok) ==
    /\ req[p].pc = "idle"
    /\ IF ~secret_ok
       THEN Reply(p, 500, NULL, FALSE)
       ELSE IF AuthPrecheck(p, inp) # 0
       THEN Reply(p, AuthPrecheck(p, inp), NULL, FALSE)
       ELSE LET n == ToString(NewSessionNo)
                gate_uuid == UuidParse(inp.gate_id)
            IN  /\ req' = [req EXCEPT ![p] =
                            [pc |-> "commit", op |-> "auth", key |-> gate_uuid,
                             hash |-> Sha256(""), ref |-> NULL, t |-> now,
                             tok |-> "tok" \o n, job |-> <<>>,
                             row |-> [new |-> IssuedSession("s" \o n, "tok" \o n,
                                                            gate_uuid,
                                                            inp.bootstrap_token, now),
                                      revoked |-> ActiveSessions(gate_uuid)]]]
                /\ sessOpen' = Opened(p)
                /\ Silent
    /\ UNCHANGED <<notLedger, client, now, settings, ledger, recog, visits, msgLogs,
                   gateSess, tenantCfg, queue, delivered, wrk, apiKey, smsCalls>>

\* session.commit() of gate_auth_session: the revocations and the new row in
\* one transaction; bootstrap_token_hash is unique, and the IntegrityError is
\* not caught
AuthCommit(p, db_ok) ==
    /\ req[p].pc = "commit"
    /\ req[p].op = "auth"
    /\ IF ~db_ok \/ BootstrapUsed(req[p].row.new.bootstrap) # {}
       THEN /\ Reply(p, 500, NULL, FALSE)
            /\ UNCHANGED gateSess
       ELSE /\ gateSess' = {IF s.id \in req[p].row.revoked
                            THEN [s EXCEPT !.status = "revoked"]
                            ELSE s : s \in gateSess} \cup {req[p].row.new}
            /\ Reply(p, 200, req[p].tok, FALSE)
    /\ UNCHANGED <<notLedger, client, now, settings, ledger, recog, visits, msgLogs,
                   tenantCfg, queue, delivered, wrk, apiKey, smsCalls>>

\* get_gate_session: the token of `Authorization: Bearer ...`, else the
\* X-Gate-Session header, trimmed; NULL when neither gives one
PresentedToken(authorization, gate_session_header) ==
    LET bearer == CASE authorization = "Bearer tok1" -> "tok1"
                    [] authorization = "Bearer tok2 " -> "tok2"
                    [] authorization = "Bearer nope" -> "nope"
                    [] OTHER -> NULL
        header == CASE gate_session_header = " tok1 " -> "tok1"
                    [] gate_session_header = "tok2" -> "tok2"
                    [] OTHER -> NULL
    IN  IF bearer # NULL THEN bearer ELSE header

\* the credentials a gate agent may send
Credentials ==
    {<<NULL, NULL>>, <<"Bearer tok1", NULL>>, <<"Bearer tok2 ", NULL>>,
     <<"Bearer nope", NULL>>, <<"Basic tok1", NULL>>, <<"Basic tok1", " tok1 ">>,
     <<"Bearer ", "tok2">>}

HeartbeatInputs ==
    {[authorization |-> c[1], gate_session_header |-> c[2], gate_id |-> g] :
        c \in Credentials, g \in {NULL, "g1"}}
        \cup {[authorization |-> "Bearer tok1", gate_session_header |-> NULL,
               gate_id |-> g] : g \in {"g2", "not-a-uuid"}}

\* gate_heartbeat, with its dependency get_gate_session
Heartbeat(p, inp, secret_ok) ==
    LET tok == PresentedToken(inp.authorization, inp.gate_session_header)
    IN  /\ req[p].pc = "idle"
        /\ IF ~secret_ok
           THEN /\ Reply(p, 500, NULL, FALSE)
                /\ UNCHANGED gateSess
           ELSE IF GateSessionStatus(tok, now) # 0
           THEN /\ Reply(p, GateSessionStatus(tok, now), NULL, FALSE)
                /\ UNCHANGED gateSess
           ELSE IF inp.gate_id # NULL /\ UuidParse(inp.gate_id) = "invalid"
           THEN /\ Reply(p, 422, NULL, FALSE)
                /\ UNCHANGED gateSess
           ELSE IF inp.gate_id # NULL
                   /\ (CHOOSE s \in gateSess : s.token = tok).gate_id
                          # UuidParse(inp.gate_id)
           THEN /\ Reply(p, 403, NULL, FALSE)
                /\ UNCHANGED gateSess
           ELSE /\ gateSess' = {IF s.token = tok
                                THEN [s EXCEPT !.last_seen_at = now]
                                ELSE s : s \in gateSess}
                /\ Reply(p, 200, NULL, FALSE)
        /\ UNCHANGED <<notLedger, client, now, settings, ledger, recog, visits,
                       msgLogs, tenantCfg, queue, delivered, wrk, apiKey, smsCalls>>

\* the frames of the gate specification: one frame under each credential
GateFrameInputs ==
    {[BaseFrame EXCEPT !.tok = PresentedToken(c[1], c[2])] : c \in Credentials}
        \cup {[BaseFrame EXCEPT !.tok = "tok1", !.frame_id = "not-a-uuid"],
              [BaseFrame EXCEPT !.tok = "tok1", !.gate_id = "g2"]}

\* ========================================================= face enrollment
\* POST /people/{person_id}/faces and DELETE /people/{person_id}/faces, for a
\* request that has passed the tenant resolution and the staff authentication.
\* Each handler runs in one transaction; requests are served one at a time.
NoAnswer == [status |-> 0, ids |-> {}, calls |-> <<>>]

Answer(status, ids, calls) == [status |-> status, ids |-> ids, calls |-> calls]

\* session.get(Person, person_uuid)
PersonExists(person_uuid) == \E person \in People : person.id = person_uuid

\* a query without the status filter
ActiveFaceIdsAnyStatus(person_uuid) ==
    {f.face_id : f \in {x \in profiles : x.person_id = person_uuid}}

\* select(FaceProfile) of the person, provider rekognition, status active
ActiveFaceIds(person_uuid) ==
    {f.face_id : f \in {x \in profiles : x.person_id = person_uuid
                                           /\ x.status = "active"}}

\* What the matching capability may do in delete_faces: get_face_provider
\* raises ProviderNotConfiguredError, ensure_collection raises,
\* delete_face_ids raises, or all three return.
DeleteOutcomes == {"ok", "not_configured", "ensure_error", "delete_error"}

\* the calls made to the capability up to the outcome
DeleteCalls(out) ==
    CASE out = "not_configured" -> <<>>
      [] out = "ensure_error" -> <<"create_collection">>
      [] OTHER -> <<"create_collection", "delete_faces">>

\* delete_faces
DeleteFaces(person_id, out, db_ok) ==
    LET person_uuid == IdParse(person_id)
        face_ids == ActiveFaceIds(person_uuid)
    IN  /\ IF person_uuid = "invalid"
           THEN /\ faceAnswer' = Answer(422, {}, <<>>)
                /\ UNCHANGED <<profiles, consent, consentEvents, audits>>
           ELSE IF ~PersonExists(person_uuid)
           THEN /\ faceAnswer' = Answer(404, {}, <<>>)
                /\ UNCHANGED <<profiles, consent, consentEvents, audits>>
           ELSE IF face_ids = {}
           THEN /\ faceAnswer' = Answer(200, {}, <<>>)
                /\ UNCHANGED <<profiles, consent, consentEvents, audits>>
           ELSE IF out # "ok" \/ ~db_ok
           THEN /\ faceAnswer' = Answer(500, {}, DeleteCalls(out))
                /\ UNCHANGED <<profiles, consent, consentEvents, audits>>
           ELSE /\ profiles' = {IF f.person_id = person_uuid /\ f.status = "active"
                                THEN [f EXCEPT !.status = "deleted"]
                                ELSE f : f \in profiles}
                /\ consent' = [consent EXCEPT ![person_uuid] = "revoked"]
                /\ consentEvents' =
                      Append(consentEvents,
                             [person_id |-> person_uuid, status |-> "revoked",
                              source |-> "delete_faces"])
                /\ audits' = Append(audits,
                                    [action |-> "face.delete",
                                     target_id |-> person_uuid,
                                     face_count |-> Cardinality(face_ids)])
                /\ faceAnswer' = Answer(200, face_ids, DeleteCalls(out))
        /\ UNCHANGED notFaces

\* What the capability may do in enroll_faces: the three failures, or the
\* face ids of provider.enroll, in order.
EnrollOutcomes ==
    {[kind |-> k, face_ids |-> <<>>] :
        k \in {"not_configured", "ensure_error", "enroll_error"}}
        \cup {[kind |-> "result", face_ids |-> ids] :
                 ids \in {<<>>, <<"faceY">>, <<"faceZ", "faceY">>, <<"faceX">>}}

EnrollCalls(out) ==
    CASE out.kind = "not_configured" -> <<>>
      [] out.kind = "ensure_error" -> <<"create_collection">>
      [] OTHER -> <<"create_collection", "index_faces">>

\* the rows enroll_faces adds: the first face active, the others inactive
EnrolledProfiles(person_uuid, face_ids) ==
    {[face_id |-> face_ids[i], person_id |-> person_uuid,
      status |-> IF i = 1 THEN "active" ELSE "inactive"] : i \in 1..Len(face_ids)}

\* enroll_faces; the index uq_face_profiles_provider_face makes the commit
\* fail when a face id is already stored
EnrollFaces(person_id, consent_confirmed, out, db_ok) ==
    LET person_uuid == IdParse(person_id)
        face_ids == out.face_ids
        refuse(status, calls) ==
            /\ faceAnswer' = Answer(status, {}, calls)
            /\ UNCHANGED <<profiles, consent, consentEvents, audits>>
    IN  /\ IF person_uuid = "invalid" THEN refuse(422, <<>>)
           ELSE IF ~PersonExists(person_uuid) THEN refuse(404, <<>>)
           ELSE IF consent[person_uuid] # "consented"
                   /\ ParseOptionalBool(consent_confirmed) = "invalid"
           THEN refuse(422, <<>>)
           ELSE IF consent[person_uuid] # "consented"
                   /\ ParseOptionalBool(consent_confirmed) # "True"
           THEN refuse(403, <<>>)
           ELSE IF out.kind # "result" THEN refuse(500, EnrollCalls(out))
           ELSE IF face_ids = <<>> THEN refuse(422, EnrollCalls(out))
           ELSE IF ~db_ok \/ \E i \in 1..Len(face_ids), f \in profiles :
                                   f.face_id = face_ids[i]
           THEN refuse(500, EnrollCalls(out))
           ELSE /\ profiles' =
                      {IF f.person_id = person_uuid /\ f.status = "active"
                       THEN [f EXCEPT !.status = "inactive"]
                       ELSE f : f \in profiles}
                          \cup EnrolledProfiles(person_uuid, face_ids)
                /\ consent' = [consent EXCEPT ![person_uuid] = "consented"]
                /\ consentEvents' =
                      IF consent[person_uuid] # "consented"
                      THEN Append(consentEvents,
                                  [person_id |-> person_uuid, status |-> "consented",
                                   source |-> "enrollment"])
                      ELSE consentEvents
                /\ audits' = Append(audits,
                                    [action |-> "face.enroll",
                                     target_id |-> person_uuid,
                                     face_count |-> Len(face_ids)])
                /\ faceAnswer' = Answer(200, {face_ids[i] : i \in 1..Len(face_ids)},
                                    EnrollCalls(out))
        /\ UNCHANGED notFaces

\* The tables as the fixed tables of the ledger part have them.
FacesInit ==
    /\ profiles = FaceProfiles
    /\ consent = [id \in {person.id : person \in People} |->
                    (CHOOSE person \in People : person.id = id).consent_status]
    /\ consentEvents = <<>>
    /\ audits = <<>>
    /\ faceAnswer = NoAnswer

FacesIdle == FacesInit

\* ============================================================= rule engine
\* POST /rules/{rule_id}/run, run_rule_job and PATCH /followups/{id}.
\* Times are ticks: the defaults of the tenant configuration (cooldown 1440
\* minutes, escalation after 3 days, 6 sessions) are scaled to the clock and
\* the visit history of the model.
MaxRuns == 2
WelcomeCooldown == 1
ThresholdSessions == 1
EscalationAge == 1

\* message_templates.name of the templates: the absence template is inactive
TemplateNamed(template_name) ==
    CASE template_name = "welcome_default" -> "tpl1"
      [] template_name = "absence_default" -> "tpl2"
      [] OTHER -> NULL

\* _select_template: the active template of that name, else None
SelectTemplate(template_name) ==
    IF \E t \in Templates : t.id = TemplateNamed(template_name) /\ t.active
    THEN TemplateNamed(template_name)
    ELSE NULL

\* func.date(visit_events.captured_at), as a day number
DateOf(captured_at) ==
    CASE captured_at = "01-04T10:00+00:00" -> 4
      [] captured_at = "01-11T10:00+00:00" -> 11
      [] OTHER -> 0

\* the visits on file when the rules run: p1 came to the session of 4
\* January only, p2 and p3 came on 11 January, one frame matched nobody
RuleVisits ==
    {[frame_id |-> "f1", gate_id |-> "g1", captured_at |-> "01-04T10:00+00:00",
      person_id |-> "p1", status |-> "matched"],
     [frame_id |-> "f2", gate_id |-> "g1", captured_at |-> "01-11T10:00+00:00",
      person_id |-> "p2", status |-> "matched"],
     [frame_id |-> "f3", gate_id |-> "g1", captured_at |-> "01-11T10:00+00:00",
      person_id |-> "p3", status |-> "matched"],
     [frame_id |-> "f4", gate_id |-> "g1", captured_at |-> "01-11T10:00+00:00",
      person_id |-> NULL, status |-> "unknown"]}

\* a follow-up task closed long ago
OldTask ==
    [id |-> "u9", person_id |-> "p3", rule_id |-> "ra", status |-> "resolved",
     assigned_to_user_id |-> "staff7", created_at |-> 0 - 1]

\* roles / user_roles as the tenant may have set them up
RoleSetups ==
    {{},
     {[user_id |-> "pastor1", role |-> "Pastor", is_active |-> TRUE],
      [user_id |-> "pastor2", role |-> "Pastor", is_active |-> TRUE],
      [user_id |-> "admin1", role |-> "BranchAdmin", is_active |-> TRUE]},
     {[user_id |-> "pastor1", role |-> "Pastor", is_active |-> FALSE],
      [user_id |-> "admin1", role |-> "BranchAdmin", is_active |-> TRUE],
      [user_id |-> "usher1", role |-> "Usher", is_active |-> TRUE]}}

\* _select_escalation_user with the role order reversed
EscalationUsersAdminFirst(roles) ==
    LET holders(role_name) == {u.user_id : u \in {x \in roles :
                                   x.role = role_name /\ x.is_active}}
    IN  IF holders("BranchAdmin") # {} THEN holders("BranchAdmin")
        ELSE IF holders("Pastor") # {} THEN holders("Pastor")
        ELSE {NULL}

\* _select_escalation_user: the users the two queries may return (limit(1)
\* without an order picks any active holder); None when nobody holds a role
EscalationUsers(roles) ==
    LET holders(role_name) == {u.user_id : u \in {x \in roles :
                                   x.role = role_name /\ x.is_active}}
    IN  IF holders("Pastor") # {} THEN holders("Pastor")
        ELSE IF holders("BranchAdmin") # {} THEN holders("BranchAdmin")
        ELSE {NULL}

\* the arguments of run_rule_job.delay(...)
RuleArgs(slug, rule_id, run_id) ==
    [kind |-> "rule", slug |-> slug, frame_id |-> NULL,
     gate_id |-> NULL, captured_at |-> NULL, request_hash |-> Sha256(""),
     ref |-> run_id, image_b64 |-> NULL, session_id |-> NULL,
     face_present |-> NULL, motion_score |-> NULL, body |-> NULL,
     rule_id |-> rule_id]

NoStats == [error |-> NULL, template_missing |-> NULL, candidates |-> 0,
            messages_queued |-> 0, messages_skipped |-> 0, tasks_created |-> 0]

\* ------------------------------------------------ POST /rules/{rule_id}/run
\* run_rule: 422, 404, else the RuleRun is committed as queued and the job is
\* enqueued after the commit
RunRule(rule_id, db_ok, broker_ok) ==
    /\ Cardinality(ruleRuns) < MaxRuns
    /\ IF RuleIdParse(rule_id) = "invalid"
       THEN /\ resp' = Response(422, NULL, FALSE)
            /\ UNCHANGED <<ruleRuns, queue, delivered>>
       ELSE IF ~\E r \in Rules : r.id = RuleIdParse(rule_id)
       THEN /\ resp' = Response(404, NULL, FALSE)
            /\ UNCHANGED <<ruleRuns, queue, delivered>>
       ELSE IF ~db_ok
       THEN /\ resp' = Response(500, NULL, FALSE)
            /\ UNCHANGED <<ruleRuns, queue, delivered>>
       ELSE /\ ruleRuns' = ruleRuns \cup
                             {[id |-> Uuid4, rule_id |-> RuleIdParse(rule_id),
                               status |-> "queued", stats_json |-> NoStats]}
            /\ IF broker_ok
               THEN /\ queue' = Append(queue, RuleArgs("grace",
                                                     RuleIdParse(rule_id), Uuid4))
                    /\ delivered' = Append(delivered, 0)
                    /\ resp' = Response(200, Uuid4, FALSE)
               ELSE /\ resp' = Response(500, NULL, FALSE)
                    /\ UNCHANGED <<queue, delivered>>
    /\ UNCHANGED <<notRules, client, now, settings, ledger, recog, visits, msgLogs,
                   gateSess, tenantCfg, apiKey, smsCalls, req, wrk, sessOpen,
                   tasks, userRoles>>

\* ------------------------------------------------- PATCH /followups/{id}
\* rows the UPDATE of a run in progress has locked until that run commits
LockedTasks == UNION {wrk[w].dec.escalate :
                        w \in {x \in Workers : wrk[x].pc = "rule_commit"}}

\* update_followup: any status value is stored as given
UpdateFollowup(followup_id, status_value, db_ok) ==
    /\ UuidParse(followup_id) \notin LockedTasks
    /\ IF UuidParse(followup_id) = "invalid"
       THEN /\ resp' = Response(422, NULL, FALSE)
            /\ UNCHANGED tasks
       ELSE IF ~\E t \in tasks : t.id = UuidParse(followup_id)
       THEN /\ resp' = Response(404, NULL, FALSE)
            /\ UNCHANGED tasks
       ELSE IF ~db_ok
       THEN /\ resp' = Response(500, NULL, FALSE)
            /\ UNCHANGED tasks
       ELSE /\ tasks' = {IF t.id = UuidParse(followup_id)
                         THEN [t EXCEPT !.status = status_value]
                         ELSE t : t \in tasks}
            /\ resp' = Response(200, UuidParse(followup_id), FALSE)
    /\ UNCHANGED <<notRules, client, now, settings, ledger, recog, visits, msgLogs,
                   gateSess, tenantCfg, apiKey, smsCalls, queue, delivered, req,
                   wrk, sessOpen, ruleRuns, userRoles>>

\* ------------------------------------------------------------ run_rule_job
RuleRows(id) == {r \in Rules : r.id = id}
RuleRunRows(id) == {r \in ruleRuns : r.id = id}

SetRun(runs, id, status, stats) ==
    {IF r.id = id THEN [r EXCEPT !.status = status, !.stats_json = stats]
     ELSE r : r \in runs}

\* uuid.uuid4() for each row a run adds: ids nobody holds, all different
RECURSIVE Allot(_, _)
Allot(holders, used) ==
    IF holders = {} THEN {}
    ELSE LET h == CHOOSE x \in holders : TRUE
             id == "u" \o ToString(CHOOSE n \in 1..(Cardinality(used) + 1) :
                       /\ ("u" \o ToString(n)) \notin used
                       /\ \A m \in 1..(n - 1) : ("u" \o ToString(m)) \in used)
         IN  {<<h, id>>} \cup Allot(holders \ {h}, used \cup {id})

IdFor(allotted, holder) == (CHOOSE a \in allotted : a[1] = holder)[2]

\* f"message_send:auto:{sha256(person:template:run:sms)}"
AutoKey(person_id, template_id, run_id) ==
    "message_send:auto:sha256(" \o person_id \o ":" \o template_id \o ":"
        \o run_id \o ":sms)"

\* _hash_message_payload (worker.py) of [person, template, "sms", body]
RuleMessageHash(person_id, template_id, body) ==
    Sha256("[" \o JsonText(person_id) \o "," \o JsonText(template_id)
           \o ",\"sms\"," \o JsonText(body) \o "]")

\* _default_context(person)["first_name"], rendered by the template
RuleBody(person) == RenderTemplate(person.id)

\* the sms_enabled flag and the three numeric settings, scaled
SmsEnabled == CfgValue("sms_enabled", 1) # 0
CooldownTicks == CfgValue("welcome_cooldown_minutes", WelcomeCooldown)
EscalationTicks == CfgValue("followup_escalation_days", EscalationAge)

CanReceive(person) ==
    /\ person.consent_status = "consented"
    /\ person.phone_enc # NULL

\* _queue_message for one person: "none" for a key taken by another payload,
\* "existing" for a key already on file, "new" when rows are added
QueueOutcome(person, template_id, run_id) ==
    LET key == AutoKey(person.id, template_id, run_id)
    IN  IF LedgerRows(key) = {} THEN "new"
        ELSE IF LedgerRow(key).request_hash
                  # RuleMessageHash(person.id, template_id, RuleBody(person))
             THEN "none"
             ELSE "existing"

RuleMessageLog(log_id, person, template_id, t) ==
    [id |-> log_id, person_id |-> person.id, template_id |-> template_id,
     channel |-> "sms", to_phone_enc |-> person.phone_enc,
     to_phone_hash |-> person.phone_hash, status |-> "queued",
     error_code |-> NULL, provider_message_id |-> NULL, created_at |-> t]

RuleLedgerRow(log_id, person, template_id, run_id) ==
    [scope |-> "message_send", key |-> AutoKey(person.id, template_id, run_id),
     request_hash |-> RuleMessageHash(person.id, template_id, RuleBody(person)),
     response_ref |-> log_id, status |-> "accepted"]

\* the log id _queue_message returns for a person
QueuedLogId(person, template_id, run_id, allotted) ==
    IF QueueOutcome(person, template_id, run_id) = "new"
    THEN IdFor(allotted, <<"log", person.id>>)
    ELSE LedgerRow(AutoKey(person.id, template_id, run_id)).response_ref

\* the list `queued`, as the jobs dispatched in the end
RECURSIVE QueuedSends(_, _, _, _)
QueuedSends(persons, template_id, run_id, allotted) ==
    IF persons = {} THEN <<>>
    ELSE LET person == CHOOSE x \in persons : TRUE
         IN  <<SendArgs("grace",
                        QueuedLogId(person, template_id, run_id, allotted),
                        RuleBody(person))>>
             \o QueuedSends(persons \ {person}, template_id, run_id, allotted)

\* what the run holds uncommitted, and its counters: `counted` people are
\* either queued or skipped
Pending(messaged, template_id, run_id, t, allotted, new_tasks, escalate, user,
        candidates, counted) ==
    LET fresh == {q \in messaged : QueueOutcome(q, template_id, run_id) = "new"}
        sent == {q \in messaged : QueueOutcome(q, template_id, run_id) # "none"}
    IN  [at |-> t,
         ids |-> {a[2] : a \in allotted},
         logs |-> {RuleMessageLog(IdFor(allotted, <<"log", q.id>>), q,
                                  template_id, t) : q \in fresh},
         keys |-> {RuleLedgerRow(IdFor(allotted, <<"log", q.id>>), q,
                                 template_id, run_id) : q \in fresh},
         new_tasks |-> new_tasks,
         escalate |-> escalate,
         user |-> user,
         sends |-> QueuedSends(sent, template_id, run_id, allotted),
         stats |-> [NoStats EXCEPT !.candidates = candidates,
                                   !.messages_queued = Cardinality(sent),
                                   !.messages_skipped = counted - Cardinality(sent),
                                   !.tasks_created = Cardinality(new_tasks)]]

\* -- welcome
WelcomeCandidates == {q \in People : \E v \in visits : v.person_id = q.id}

\* the MessageLogs of a person and a template created since the cutoff
RecentLogs(person, template_id, cutoff) ==
    {m \in msgLogs : /\ m.person_id = person.id
                     /\ m.template_id = template_id
                     /\ m.created_at >= cutoff}

\* the people a welcome run started at t queues a message for
WelcomeTargets(template_id, t) ==
    {q \in WelcomeCandidates :
        /\ SmsEnabled /\ CanReceive(q)
        /\ RecentLogs(q, template_id, t - CooldownTicks) = {}}

\* scalar_one_or_none() raises MultipleResultsFound
WelcomeRaises(template_id, t) ==
    \E q \in WelcomeCandidates :
        /\ SmsEnabled /\ CanReceive(q)
        /\ Cardinality(RecentLogs(q, template_id, t - CooldownTicks)) > 1

WelcomePending(run_id, t) ==
    LET template_id == SelectTemplate("welcome_default")
        targets == WelcomeTargets(template_id, t)
        allotted == Allot({<<"log", q.id>> :
                              q \in {x \in targets :
                                       QueueOutcome(x, template_id, run_id) = "new"}},
                          UsedIds)
    IN  Pending(targets, template_id, run_id, t, allotted, {}, {}, NULL,
                Cardinality(WelcomeCandidates), Cardinality(WelcomeCandidates))

\* -- absence
VisitDates == {DateOf(v.captured_at) : v \in {x \in visits : x.person_id # NULL}}

\* the dates of the last threshold_sessions sessions
SessionDates ==
    {d \in VisitDates : Cardinality({e \in VisitDates : e > d}) < ThresholdSessions}

\* func.max(captured_at).date() of a person with visits
LastSeenDate(person) ==
    LET dates == {DateOf(v.captured_at) : v \in {x \in visits :
                                                    x.person_id = person.id}}
    IN  CHOOSE d \in dates : \A e \in dates : e <= d

\* mode "sessions": people seen at least once, but at none of those sessions
Absent ==
    {q \in People :
        /\ \E v \in visits : v.person_id = q.id
        /\ SessionDates # {}
        /\ LastSeenDate(q) \notin SessionDates}

IsOpen(task) == task.status \notin {"closed", "resolved"}

\* the set open_tasks of the run: the people with an open task
OpenTasks == {t.person_id : t \in {x \in tasks : IsOpen(x)}}

\* the tasks the bulk UPDATE of a run started at t selects
Escalated(t) ==
    {task.id : task \in {x \in tasks : /\ IsOpen(x)
                                        /\ x.created_at <= t - EscalationTicks}}

AbsencePending(rule_id, run_id, t, user) ==
    LET template_id == SelectTemplate("absence_default")
        create == {q \in Absent : q.id \notin OpenTasks}
        targets == {q \in create : /\ SmsEnabled /\ template_id # NULL
                                   /\ CanReceive(q)}
        allotted == Allot({<<"task", q.id>> : q \in create}
                          \cup {<<"log", q.id>> :
                                  q \in {x \in targets :
                                     QueueOutcome(x, template_id, run_id) = "new"}},
                          UsedIds)
        new_tasks == {[id |-> IdFor(allotted, <<"task", q.id>>),
                       person_id |-> q.id, rule_id |-> rule_id, status |-> "open",
                       assigned_to_user_id |-> NULL, created_at |-> t] :
                      q \in create}
    IN  Pending(targets, template_id, run_id, t, allotted, new_tasks,
                IF user = NULL THEN {} ELSE Escalated(t), user,
                Cardinality(People), Cardinality(Absent))

\* the rows of tenant_config after the get_config_value calls of a run
RuleCfgAfter(rule_type, template_id) ==
    LET sms == CfgAfterRead(tenantCfg, "sms_enabled", 1)
    IN  IF rule_type = "welcome"
        THEN IF template_id = NULL THEN sms
             ELSE CfgAfterRead(sms, "welcome_cooldown_minutes", WelcomeCooldown)
        ELSE IF rule_type = "absence"
        THEN CfgAfterRead(
               CfgAfterRead(
                 CfgAfterRead(sms, "absence_threshold_sessions", ThresholdSessions),
                 "absence_threshold_weeks", 3),
               "followup_escalation_days", EscalationAge)
        ELSE sms

\* how the database behaves during a step of the job: it works, one
\* statement or commit raises, or it is down for the failure handler too
DbStates == {"ok", "error", "down"}

\* a handler that rolls back and records nothing
RunFailedUnrecorded(run_id, text, db) == ruleRuns

\* `except Exception`: rollback, then the run is committed as failed with
\* the text of the exception; when that commit raises too nothing is kept
RunFailed(run_id, text, db) ==
    IF db = "down" THEN ruleRuns
    ELSE SetRun(ruleRuns, run_id, "failed", [NoStats EXCEPT !.error = text])

\* run_rule_job from loading the rule and the run to the last statement
\* before the final commit
RuleEvaluate(w, user, db) ==
    /\ wrk[w].pc = "rule"
    /\ user \in EscalationUsers(userRoles)
    /\ LET job == queue[wrk[w].job]
           kind == IF RuleRows(job.rule_id) = {} THEN NULL
                   ELSE (CHOOSE r \in Rules : r.id = job.rule_id).rule_type
           active == /\ RuleRows(job.rule_id) # {}
                     /\ (CHOOSE r \in Rules : r.id = job.rule_id).status = "active"
           template_id == SelectTemplate(IF kind = "welcome" THEN "welcome_default"
                                         ELSE "absence_default")
       IN  IF RuleRows(job.rule_id) = {} \/ RuleRunRows(job.ref) = {}
           THEN /\ WorkerDone(w)
                /\ UNCHANGED <<ruleRuns, tenantCfg>>
           ELSE IF db # "ok"
           THEN /\ ruleRuns' = RunFailed(job.ref, "OperationalError", db)
                /\ WorkerDone(w)
                /\ UNCHANGED tenantCfg
           ELSE IF ~active
           THEN /\ ruleRuns' = SetRun(ruleRuns, job.ref, "skipped",
                                      (CHOOSE r \in ruleRuns : r.id = job.ref).stats_json)
                /\ WorkerDone(w)
                /\ UNCHANGED tenantCfg
           ELSE IF kind = "welcome" /\ template_id = NULL
           THEN /\ ruleRuns' = SetRun(ruleRuns, job.ref, "completed",
                                      [NoStats EXCEPT !.template_missing =
                                                         "welcome_default"])
                /\ tenantCfg' = RuleCfgAfter(kind, template_id)
                /\ WorkerDone(w)
           ELSE IF kind = "welcome" /\ WelcomeRaises(template_id, now)
           THEN /\ ruleRuns' = RunFailed(job.ref, "MultipleResultsFound", db)
                /\ tenantCfg' = RuleCfgAfter(kind, template_id)
                /\ WorkerDone(w)
           ELSE IF kind = "welcome"
           THEN /\ wrk' = [wrk EXCEPT ![w].pc = "rule_commit",
                                      ![w].dec = WelcomePending(job.ref, now)]
                /\ tenantCfg' = RuleCfgAfter(kind, template_id)
                /\ UNCHANGED <<ruleRuns, sessOpen>>
           ELSE IF kind = "absence"
           THEN /\ AbsencePending(job.rule_id, job.ref, now, user).escalate
                      \cap LockedTasks = {}
                /\ wrk' = [wrk EXCEPT ![w].pc = "rule_commit",
                                      ![w].dec = AbsencePending(job.rule_id, job.ref,
                                                                now, user)]
                /\ tenantCfg' = RuleCfgAfter(kind, template_id)
                /\ UNCHANGED <<ruleRuns, sessOpen>>
           ELSE /\ ruleRuns' = SetRun(ruleRuns, job.ref, "failed",
                                      [NoStats EXCEPT !.error = "unsupported rule"])
                /\ tenantCfg' = RuleCfgAfter(kind, template_id)
                /\ WorkerDone(w)
    /\ Silent
    /\ UNCHANGED <<notRules, client, now, settings, ledger, recog, visits, msgLogs,
                   gateSess, apiKey, smsCalls, queue, delivered, req, tasks,
                   userRoles>>

\* the rows of the run become visible, the escalated tasks get their user
Committed(dec) ==
    {IF task.id \in dec.escalate
     THEN [task EXCEPT !.assigned_to_user_id = dec.user]
     ELSE task : task \in tasks} \cup dec.new_tasks

\* unique constraint on idempotency_keys.key
KeyTaken(dec) == \E k \in dec.keys : LedgerRows(k.key) # {}

\* the final commit of run_rule_job and `finally: session.close()`
RuleCommit(w, db) ==
    /\ wrk[w].pc = "rule_commit"
    /\ LET job == queue[wrk[w].job]
           dec == wrk[w].dec
       IN  IF db = "ok" /\ ~KeyTaken(dec)
           THEN /\ msgLogs' = msgLogs \cup dec.logs
                /\ ledger' = ledger \cup dec.keys
                /\ tasks' = Committed(dec)
                /\ ruleRuns' = SetRun(ruleRuns, job.ref, "completed", dec.stats)
                /\ wrk' = [wrk EXCEPT ![w].pc = "rule_dispatch"]
                /\ sessOpen' = Closed(w)
           ELSE /\ ruleRuns' = RunFailed(job.ref,
                                         IF db = "ok" THEN "IntegrityError"
                                         ELSE "OperationalError", db)
                /\ WorkerDone(w)
                /\ UNCHANGED <<msgLogs, ledger, tasks>>
    /\ Silent
    /\ UNCHANGED <<notRules, client, now, settings, recog, visits, gateSess,
                   tenantCfg, apiKey, smsCalls, queue, delivered, req, userRoles>>

\* a job that hands its messages to the broker before its final commit
RuleDispatchEarly(w, broker_ok) ==
    /\ wrk[w].pc = "rule_commit"
    /\ queue' = queue \o wrk[w].dec.sends
    /\ delivered' = delivered \o [i \in 1..Len(wrk[w].dec.sends) |-> 0]
    /\ wrk' = [wrk EXCEPT ![w].dec.sends = <<>>]
    /\ Silent
    /\ UNCHANGED <<notRules, client, now, settings, ledger, recog, visits, msgLogs,
                   gateSess, tenantCfg, apiKey, smsCalls, req, sessOpen, ruleVars>>

\* after the try block: `if not had_error`, one send_message_job per queued
\* message; a broker that refuses ends the loop with its exception
RuleDispatch(w, broker_ok) ==
    /\ wrk[w].pc = "rule_dispatch"
    /\ IF broker_ok
       THEN /\ queue' = queue \o wrk[w].dec.sends
            /\ delivered' = delivered \o [i \in 1..Len(wrk[w].dec.sends) |-> 0]
       ELSE UNCHANGED <<queue, delivered>>
    /\ wrk' = [wrk EXCEPT ![w] = IdleWrk]
    /\ Silent
    /\ UNCHANGED <<notRules, client, now, settings, ledger, recog, visits, msgLogs,
                   gateSess, tenantCfg, apiKey, smsCalls, req, sessOpen, ruleVars>>

\* ---------------------------------------------------------------- start
RulesInit ==
    /\ ruleRuns = {}
    /\ tasks = {OldTask}
    /\ userRoles \in RoleSetups

RulesIdle == RulesInit /\ userRoles = {}

\* ============================================================ control plane
\* POST /tenants (control-plane-api main.py create_tenant) and
\* TenantProvisioner.provision.  The control plane answers through `resp`.
IdleProv == [pc |-> "idle", id |-> NULL, slug |-> NULL, name |-> NULL,
             key |-> NULL]

\* slug.strip().lower() and SLUG_RE
SlugNormalize(slug) ==
    CASE slug = "grace" -> "grace"
      [] slug = " Grace" -> "grace"
      [] slug = "hope" -> "hope"
      [] OTHER -> "invalid"

\* name.strip()
NameStrip(name) == IF name = "Grace Church " THEN "Grace Church" ELSE name

\* f"tenant_{tenant_id}": the name of the tenant database and of its role
TenantDbName(tenant_id) == "tenant_" \o tenant_id

\* uuid.uuid4() for Tenant.id
TenantUuid ==
    LET used == {t.id : t \in tenants} \cup {prov[p].id : p \in ApiProcs}
    IN  "t" \o ToString(CHOOSE n \in 1..(Cardinality(used) + 1) :
                           /\ ("t" \o ToString(n)) \notin used
                           /\ \A m \in 1..(n - 1) : ("t" \o ToString(m)) \in used)

\* a provisioner that never looks the Idempotency-Key up
KeyRowsIgnored(idempotency_key) == {}

\* select(Tenant).where(Tenant.idempotency_key == idempotency_key)
KeyRows(idempotency_key) ==
    IF idempotency_key = NULL THEN {}
    ELSE {t \in tenants : t.idempotency_key = idempotency_key}

SlugRows(slug) == {t \in tenants : t.slug = slug}

SetTenant(rows, id, status, provisioning_state) ==
    {IF t.id = id
     THEN [t EXCEPT !.status = status, !.provisioning_state = provisioning_state]
     ELSE t : t \in rows}

Audited(tenant_id, action) ==
    globalAudits \cup {[tenant_id |-> tenant_id, action |-> action]}

\* provision up to the flush of the new Tenant row: 422 for a bad slug, the
\* replay of a known key, 409 for a slug that is taken
ProvisionBegin(p, inp) ==
    /\ prov[p].pc = "idle"
    /\ IF SlugNormalize(inp.slug) = "invalid"
       THEN /\ resp' = Response(422, NULL, FALSE)
            /\ UNCHANGED prov
       ELSE IF KeyRows(inp.key) # {}
       THEN /\ resp' = Response(200, (CHOOSE t \in KeyRows(inp.key) : TRUE).id, FALSE)
            /\ UNCHANGED prov
       ELSE IF SlugRows(SlugNormalize(inp.slug)) # {}
       THEN /\ resp' = Response(409, NULL, FALSE)
            /\ UNCHANGED prov
       ELSE /\ prov' = [prov EXCEPT ![p] =
                          [pc |-> "commit", id |-> TenantUuid,
                           slug |-> SlugNormalize(inp.slug),
                           name |-> NameStrip(inp.name), key |-> inp.key]]
            /\ Silent
    /\ UNCHANGED <<notProv, tenants, tenantDbs, globalAudits, databases, dbRoles,
                   collections>>

\* session.commit() of the Tenant row (unique slug, unique idempotency_key:
\* the IntegrityError is answered 500), then _get_admin_url(), which raises
\* outside the try block when neither URL is configured
ProvisionCommit(p, db_ok, admin_ok) ==
    /\ prov[p].pc = "commit"
    /\ IF ~db_ok \/ SlugRows(prov[p].slug) # {} \/ KeyRows(prov[p].key) # {}
       THEN /\ resp' = Response(500, NULL, FALSE)
            /\ prov' = [prov EXCEPT ![p] = IdleProv]
            /\ UNCHANGED <<tenants, globalAudits>>
       ELSE /\ tenants' = tenants \cup
                            {[id |-> prov[p].id, slug |-> prov[p].slug,
                              name |-> prov[p].name, status |-> "provisioning",
                              provisioning_state |-> "provisioning",
                              idempotency_key |-> prov[p].key]}
            /\ globalAudits' = Audited(prov[p].id, "tenant.provisioning_started")
            /\ IF admin_ok
               THEN /\ prov' = [prov EXCEPT ![p].pc = "create"]
                    /\ Silent
               ELSE /\ prov' = [prov EXCEPT ![p] = IdleProv]
                    /\ resp' = Response(500, NULL, FALSE)
    /\ UNCHANGED <<notProv, tenantDbs, databases, dbRoles, collections>>

\* how the exception handler of provision fares: its commit and the drop
\* work, its commit raises, or the drop raises
HandlerStates == {"ok", "commit_fails", "drop_fails"}

\* `except Exception` of provision: the Tenant row is committed as failed,
\* then what was created is dropped if created_db or created_user is set,
\* then the exception goes on to create_tenant
ProvisionFailed(p, created, status, h, roles_now, dbs_now) ==
    /\ prov' = [prov EXCEPT ![p] = IdleProv]
    /\ IF h = "commit_fails"
       THEN /\ resp' = Response(500, NULL, FALSE)
            /\ databases' = dbs_now
            /\ dbRoles' = roles_now
            /\ UNCHANGED <<tenants, globalAudits>>
       ELSE /\ tenants' = SetTenant(tenants, prov[p].id, "error", "failed")
            /\ globalAudits' = Audited(prov[p].id, "tenant.provisioning_failed")
            /\ IF created /\ h = "ok"
               THEN /\ databases' = dbs_now \ {TenantDbName(prov[p].id)}
                    /\ dbRoles' = roles_now \ {TenantDbName(prov[p].id)}
                    /\ resp' = Response(status, NULL, FALSE)
               ELSE /\ databases' = dbs_now
                    /\ dbRoles' = roles_now
                    /\ resp' = Response(IF created THEN 500 ELSE status, NULL, FALSE)

\* what the secret lookup and _create_db_and_user may do: both statements
\* work, the secret is missing, the server cannot be reached, or CREATE ROLE
\* works and CREATE DATABASE raises
CreateOutcomes == {"ok", "secret_error", "connect_error", "role_only"}

\* the secret lookup and _create_db_and_user
ProvisionCreate(p, out, h) ==
    /\ prov[p].pc = "create"
    /\ LET db_name == TenantDbName(prov[p].id)
       IN  IF out = "secret_error" \/ out = "connect_error"
           THEN ProvisionFailed(p, FALSE, 500, h, dbRoles, databases)
           ELSE IF db_name \in databases \/ db_name \in dbRoles
           THEN ProvisionFailed(p, FALSE, 409, h, dbRoles, databases)
           ELSE IF out = "role_only"
           THEN ProvisionFailed(p, FALSE, 500, h, dbRoles \cup {db_name}, databases)
           ELSE /\ dbRoles' = dbRoles \cup {db_name}
                /\ databases' = databases \cup {db_name}
                /\ prov' = [prov EXCEPT ![p].pc = "setup"]
                /\ Silent
                /\ UNCHANGED <<tenants, globalAudits>>
    /\ UNCHANGED <<notProv, tenantDbs, collections>>

\* the secret reference, the migrations, the seed and the collection
ProvisionSetup(p, out, h) ==
    /\ prov[p].pc = "setup"
    /\ IF out = "ok"
       THEN /\ collections' = collections \cup {prov[p].id}
            /\ prov' = [prov EXCEPT ![p].pc = "final"]
            /\ Silent
            /\ UNCHANGED <<tenants, globalAudits, databases, dbRoles>>
       ELSE /\ ProvisionFailed(p, TRUE, 500, h, dbRoles, databases)
            /\ UNCHANGED collections
    /\ UNCHANGED <<notProv, tenantDbs>>

\* the TenantDbConnection row provision adds to the session
DbConnection(p) ==
    [tenant_id |-> prov[p].id, db_name |-> TenantDbName(prov[p].id),
     db_user |-> TenantDbName(prov[p].id), state |-> "active",
     is_primary |-> TRUE]

\* a connection row that was committed on its own before the last commit
RolledBackKept(committed, pending) == committed \cup pending

\* session.commit() raises: the transaction is rolled back and the rows
\* added since the previous commit are gone
RolledBack(committed, pending) == committed

\* the TenantDbConnection, the Tenant row set ready and the last commit
ProvisionFinal(p, db_ok, h) ==
    /\ prov[p].pc = "final"
    /\ IF db_ok
       THEN /\ tenantDbs' = tenantDbs \cup {DbConnection(p)}
            /\ tenants' = SetTenant(tenants, prov[p].id, "active", "ready")
            /\ globalAudits' = Audited(prov[p].id, "tenant.provisioning_succeeded")
            /\ resp' = Response(201, prov[p].id, FALSE)
            /\ prov' = [prov EXCEPT ![p] = IdleProv]
            /\ UNCHANGED <<databases, dbRoles>>
       ELSE /\ ProvisionFailed(p, TRUE, 500, h, dbRoles, databases)
            /\ tenantDbs' = RolledBack(tenantDbs, {DbConnection(p)})
    /\ UNCHANGED <<notProv, collections>>

\* _resolve_tenant_record: the join of TenantDbConnection and Tenant for the
\* slug, primary and active connections only
ResolveRows(slug) ==
    {<<c, t>> \in tenantDbs \X tenants :
        /\ c.tenant_id = t.id
        /\ t.slug = slug
        /\ c.is_primary
        /\ c.state = "active"}

\* 404 without a row, 409 for a tenant that is not active, else the
\* coordinates of the connection
ResolveTenantRecord(raw) ==
    LET rows == ResolveRows(SlugNormalize(raw))
    IN  IF rows = {}
        THEN Response(404, NULL, FALSE)
        ELSE LET row == CHOOSE r \in rows : TRUE
             IN  IF row[2].status # "active"
                 THEN Response(409, NULL, FALSE)
                 ELSE Response(200, row[1].db_name, FALSE)

\* GET /v1/tenants/resolve
ResolveTenant(raw) ==
    /\ resp' = ResolveTenantRecord(raw)
    /\ resp' # resp
    /\ UNCHANGED <<notProv, provVars>>

ProvInit ==
    /\ tenants = {}
    /\ tenantDbs = {}
    /\ globalAudits = {}
    /\ databases = {}
    /\ dbRoles = {}
    /\ collections = {}
    /\ prov = [p \in ApiProcs |-> IdleProv]

ProvIdle == ProvInit

\* ------------------------------- tenant sessions: transactions and providers
\* The four operations that call a third-party provider, each with the
\* tenant session it obtained.  `open`: the session has a database
\* transaction in progress; `call`: the provider call in flight.
TxnOwners == {"recognition_job", "send_message_job", "enroll_faces", "delete_faces"}

IdleTxn == [pc |-> "idle", open |-> FALSE, call |-> NULL]

\* Session.get / Session.execute: create_engine(database_url, future=True)
\* sets no autocommit, the first statement begins the transaction
Executed(s) == [s EXCEPT !.open = TRUE]

\* session.commit() / session.rollback()
Ended(s) == [s EXCEPT !.open = FALSE]

\* get_config_value on a session: the select, then insert and commit when a
\* default is handed out for a key that has no row
ConfigRead(s, cfg, key, default) ==
    IF (\E r \in cfg : r.key = key) \/ default = NoConf
    THEN Executed(s)
    ELSE Ended(Executed(s))

\* the provider call `name` is issued
Calling(s, name) == [s EXCEPT !.pc = name, !.call = name]

\* the provider call returned or raised
Answered(s, pc) == [s EXCEPT !.pc = pc, !.call = NULL]

SetTxn(o, s) == txn' = [txn EXCEPT ![o] = s]

\* recognition_job, the configuration reads up to ensure_collection
RecognitionReads(face_present, configured) ==
    /\ txn["recognition_job"].pc = "idle"
    /\ LET s0 == txn["recognition_job"]
           s1 == ConfigRead(s0, tenantCfg, "recognition_threshold", NoConf)
           hasThreshold == CfgValue("recognition_threshold", NoConf) # NoConf
           cfg2 == IF hasThreshold THEN tenantCfg
                   ELSE CfgAfterRead(tenantCfg, "rekognition_min_confidence",
                                     DefaultMinConfidence)
           s2 == IF hasThreshold THEN s1
                 ELSE ConfigRead(s1, tenantCfg, "rekognition_min_confidence",
                                 DefaultMinConfidence)
           s3 == ConfigRead(s2, cfg2, "dedupe_window_seconds", 300)
       IN  /\ tenantCfg' = CfgAfterRead(cfg2, "dedupe_window_seconds", 300)
           /\ IF face_present = "False" \/ ~configured
              THEN SetTxn("recognition_job", [s3 EXCEPT !.pc = "record"])
              ELSE SetTxn("recognition_job", Calling(s3, "ensure_collection"))
    /\ UNCHANGED notTxn

\* ensure_collection answered: an exception leaves through `finally`
RecognitionEnsured(ok) ==
    /\ txn["recognition_job"].call = "ensure_collection"
    /\ SetTxn("recognition_job",
              IF ok THEN Calling(txn["recognition_job"], "recognize") ELSE IdleTxn)
    /\ UNCHANGED <<notTxn, tenantCfg>>

\* provider.recognize answered; a match above the threshold is looked up
\* in face_profiles
RecognitionRecognized(out) ==
    /\ txn["recognition_job"].call = "recognize"
    /\ LET s == Answered(txn["recognition_job"], "record")
       IN  SetTxn("recognition_job",
                  IF out.kind = "result" /\ out.face_id # NULL
                     /\ out.confidence # NoConf /\ out.confidence >= MinConfidence
                  THEN Executed(s) ELSE s)
    /\ UNCHANGED <<notTxn, tenantCfg>>

\* the inserts, the ledger update, session.commit() (or the rollback of an
\* IntegrityError), then `finally: session.close()`
RecognitionRecord ==
    /\ txn["recognition_job"].pc = "record"
    /\ SetTxn("recognition_job", IdleTxn)
    /\ UNCHANGED <<notTxn, tenantCfg>>

\* send_message_job from session.get(MessageLog, ...) to provider.send_sms:
\* `plan` is what the checks before the call find (see SendJobPlan)
SendJobReads(plan) ==
    /\ txn["send_message_job"].pc = "idle"
    /\ LET s1 == Executed(txn["send_message_job"])
           s2 == ConfigRead(s1, tenantCfg, "mnotify_sender_id", NoConf)
           s3 == ConfigRead(s2, tenantCfg, "mnotify_api_key", NoConf)
       IN  IF plan = "call"
           THEN SetTxn("send_message_job", Calling(s3, "send_sms"))
           ELSE SetTxn("send_message_job", IdleTxn)
    /\ UNCHANGED <<notTxn, tenantCfg>>

\* send_sms answered: the outcome is written to the MessageLog
SendJobSent ==
    /\ txn["send_message_job"].call = "send_sms"
    /\ SetTxn("send_message_job", Answered(txn["send_message_job"], "record"))
    /\ UNCHANGED <<notTxn, tenantCfg>>

\* session.commit(), then `finally: session.close()`
SendJobRecord ==
    /\ txn["send_message_job"].pc = "record"
    /\ SetTxn("send_message_job", IdleTxn)
    /\ UNCHANGED <<notTxn, tenantCfg>>

\* enroll_faces from session.get(Person, ...) to ensure_collection; the
\* 404 / 403 / 422 answers and ProviderNotConfiguredError close the session
EnrollReads(accepted) ==
    /\ txn["enroll_faces"].pc = "idle"
    /\ LET s1 == Executed(txn["enroll_faces"])
       IN  SetTxn("enroll_faces",
                  IF accepted THEN Calling(s1, "ensure_collection") ELSE IdleTxn)
    /\ UNCHANGED <<notTxn, tenantCfg>>

\* ensure_collection answered; no images: 422
EnrollEnsured(ok, has_images) ==
    /\ txn["enroll_faces"].call = "ensure_collection"
    /\ SetTxn("enroll_faces",
              IF ok /\ has_images THEN Calling(txn["enroll_faces"], "enroll")
              ELSE IdleTxn)
    /\ UNCHANGED <<notTxn, tenantCfg>>

\* provider.enroll answered; no face ids: 422; else the update of the
\* active profiles is executed
EnrollEnrolled(has_faces) ==
    /\ txn["enroll_faces"].call = "enroll"
    /\ SetTxn("enroll_faces",
              IF has_faces THEN Executed(Answered(txn["enroll_faces"], "record"))
              ELSE IdleTxn)
    /\ UNCHANGED <<notTxn, tenantCfg>>

\* the new profiles, the audit row, session.commit(); the dependency closes
EnrollRecord ==
    /\ txn["enroll_faces"].pc = "record"
    /\ SetTxn("enroll_faces", IdleTxn)
    /\ UNCHANGED <<notTxn, tenantCfg>>

\* delete_faces from session.get(Person, ...) and the select of the active
\* profiles to ensure_collection; 404 and an empty list end the request
DeleteReads(has_faces) ==
    /\ txn["delete_faces"].pc = "idle"
    /\ LET s1 == Executed(Executed(txn["delete_faces"]))
       IN  SetTxn("delete_faces",
                  IF has_faces THEN Calling(s1, "ensure_collection") ELSE IdleTxn)
    /\ UNCHANGED <<notTxn, tenantCfg>>

DeleteEnsured(ok) ==
    /\ txn["delete_faces"].call = "ensure_collection"
    /\ SetTxn("delete_faces",
              IF ok THEN Calling(txn["delete_faces"], "delete_face_ids")
              ELSE IdleTxn)
    /\ UNCHANGED <<notTxn, tenantCfg>>

\* provider.delete_face_ids answered; then the update of the profiles
DeleteDeleted(ok) ==
    /\ txn["delete_faces"].call = "delete_face_ids"
    /\ SetTxn("delete_faces",
              IF ok THEN Executed(Answered(txn["delete_faces"], "record"))
              ELSE IdleTxn)
    /\ UNCHANGED <<notTxn, tenantCfg>>

\* consent event, audit row, session.commit(); the dependency closes
DeleteRecord ==
    /\ txn["delete_faces"].pc = "record"
    /\ SetTxn("delete_faces", IdleTxn)
    /\ UNCHANGED <<notTxn, tenantCfg>>

TxnInit == txn = [o \in TxnOwners |-> IdleTxn]

TxnIdle == TxnInit

\* ------------------------------------------------- MNotifyProvider.send_sms
\* `while attempts < 3`
MaxAttempts == 3

\* What one POST /mnotify/quick may bring: httpx.RequestError (status 0), or a
\* response with a status code and a body that is a JSON object, no JSON at
\* all, or JSON of another type (an array, a string).
HttpAnswers ==
    {[status |-> 0, body |-> NULL]}
    \cup {[status |-> s, body |-> b] :
            s \in {200, 400, 401, 403, 404, 429, 500, 503},
            b \in {"object", "text", "array"}}

NoResult == [status |-> NULL, error_code |-> NULL]

IdleSms == [pc |-> "idle", attempts |-> 0, error_code |-> NULL,
            posts |-> <<>>, slept |-> <<>>, result |-> NoResult]

\* _sanitize_response: response.json() raising ValueError gives the text
\* form; payload.items() needs a JSON object and raises AttributeError on
\* any other JSON value
SanitizeResponse(answer) ==
    IF answer.body = "array" THEN "AttributeError" ELSE "dict"

\* time.sleep(0.5 * attempts); continue: the loop test follows, and the
\* return after the loop when the attempts are used up.  `slept` is in
\* half seconds.
SleepAndContinue(s, a, code) ==
    IF a < MaxAttempts
    THEN [s EXCEPT !.attempts = a, !.error_code = code, !.slept = Append(@, a)]
    ELSE [s EXCEPT !.pc = "done", !.attempts = a, !.error_code = code,
                   !.slept = Append(@, a),
                   !.result = [status |-> "failed", error_code |-> code]]

Finished(s, a, status, code) ==
    [s EXCEPT !.pc = "done", !.attempts = a, !.error_code = code,
              !.result = [status |-> status, error_code |-> code]]

\* send_sms is called: attempts = 0, error_code = None
SendSmsCalled ==
    /\ mnotify.pc \in {"idle", "done"}
    /\ mnotify' = [IdleSms EXCEPT !.pc = "loop"]
    /\ UNCHANGED notMNotify

\* one pass of the loop body
SendSmsAttempt(answer) ==
    /\ mnotify.pc = "loop"
    /\ mnotify.attempts < MaxAttempts
    /\ LET a == mnotify.attempts + 1
           s == [mnotify EXCEPT !.posts = Append(@, answer)]
       IN  mnotify' =
             IF answer.status = 0 THEN SleepAndContinue(s, a, "timeout")
             ELSE IF SanitizeResponse(answer) = "AttributeError"
             THEN Finished(s, a, "raised", mnotify.error_code)
             ELSE IF answer.status = 200 THEN Finished(s, a, "sent", NULL)
             ELSE IF answer.status \in {400, 401, 403}
             THEN Finished(s, a, "failed", "rejected")
             ELSE IF answer.status = 429 \/ answer.status >= 500
             THEN SleepAndContinue(s, a, "retryable_error")
             ELSE Finished(s, a, "failed", "unknown_error")
    /\ UNCHANGED notMNotify

MNotifyInit == mnotify = IdleSms

MNotifyIdle == MNotifyInit

\* ------------------------------------- get_tenant calls that run concurrently
\* Threads that share one TenantRegistryClient: each get_tenant call is cut
\* where another thread can run in between, at the upstream request and at
\* the assignment to the cache.
RegistryThreads == {"t1", "t2"}

NoOutcome == [kind |-> "none", error |-> NULL, status_code |-> 0, record |-> NoRecord]

IdleLookup == [pc |-> "idle", slug |-> NULL, started |-> NoTime, outcome |-> NoOutcome]

\* a client that stamps the entry when it stores it
LookupNowAtStore(lk) == clock

\* `now = time.monotonic()` is taken once, before the fetch
LookupNow(lk) == lk.started

\* get_tenant up to the cache test: a fresh entry is returned at once
LookupBegin(th, raw) ==
    /\ lookups[th].pc \in {"idle", "done"}
    /\ LET slug == Normalize(raw)
           cached == cache[slug]
       IN  lookups' = [lookups EXCEPT ![th] =
                         IF CacheFresh(cached, clock)
                         THEN [pc |-> "done", slug |-> slug, started |-> clock,
                               outcome |-> Returned(cached.record)]
                         ELSE [pc |-> "fetch", slug |-> slug, started |-> clock,
                               outcome |-> NoOutcome]]
    /\ UNCHANGED <<notLookups, registryVars>>

\* _fetch_tenant answers with what the control plane holds by then; an
\* exception ends the call
LookupFetch(th) ==
    /\ lookups[th].pc = "fetch"
    /\ LET outcome == FetchTenant(directory[lookups[th].slug])
       IN  lookups' = [lookups EXCEPT ![th].outcome = outcome,
                                      ![th].pc = IF outcome.kind = "record"
                                                 THEN "store" ELSE "done"]
    /\ UNCHANGED <<notLookups, registryVars>>

\* self._cache[slug] = (now + ttl, record); return record
LookupStore(th) ==
    /\ lookups[th].pc = "store"
    /\ cache' = Store(lookups[th].slug, lookups[th].outcome, LookupNow(lookups[th]))
    /\ lookups' = [lookups EXCEPT ![th].pc = "done"]
    /\ UNCHANGED <<notLookups, clock, cache_ttl_seconds, directory, lookup, notFoundRun>>

LookupsInit == lookups = [th \in RegistryThreads |-> IdleLookup]

LookupsIdle == LookupsInit
\* ------------------------------------------------------------ specification
\* The tenant database right after the agent of gate g1 has been issued its
\* session (gate_auth_session at time 0); nothing else has happened yet.
LedgerInit ==
    /\ now = 0
    /\ settings \in Deployments
    /\ ledger = {}
    /\ recog = {}
    /\ visits = {}
    /\ msgLogs = {}
    /\ gateSess = {IssuedSession("s1", "tok1", "g1", BootstrapToken, 0)}
    /\ tenantCfg = {}
    /\ apiKey = IF settings.provider_mode = "mock" THEN NULL ELSE "key"
    /\ smsCalls = <<>>
    /\ queue = <<>>
    /\ delivered = <<>>
    /\ req = [p \in ApiProcs |-> IdleReq]
    /\ resp = NoResp
    /\ wrk = [w \in Workers |-> IdleWrk]
    /\ sessOpen = [o \in ApiProcs \cup Workers |-> 0]
    /\ client \in {"gate", "staff"}

\* Each specification below runs one part of the program; the other parts
\* stay in one of their initial states.
LedgerIdle == LedgerInit /\ client = "gate" /\ settings.provider_mode = "mock"

RegistryIdle ==
    /\ RegistryInit
    /\ cache_ttl_seconds = DefaultCacheTtl
    /\ directory = [s \in Slugs |-> HttpAnswer(404, NoRecord)]

ManagerIdle == ManagerInit /\ env = "dev" /\ dns = {}

\* The workload of the ledger specification: two API threads, one Celery
\* worker, and the requests of one gate agent and one messaging client.
LedgerFrameInputs ==
    LET b == [BaseFrame EXCEPT !.tok = "tok1"]
    IN  {b,
         [b EXCEPT !.image = "B", !.motion_score = "0.5"],
         [b EXCEPT !.face_present = NULL],
         [b EXCEPT !.captured_at = "10:00+00:00"],
         BaseFrame}

LedgerMessageInputs ==
    {BaseMessage,
     [BaseMessage EXCEPT !.body = "yo"],
     [BaseMessage EXCEPT !.to_phone = "+23355"],
     [BaseMessage EXCEPT !.channel = "email"]}

LedgerFaceOutcomes ==
    {out \in FaceOutcomes :
        out.kind \in {"not_configured", "ensure_error"} \/ out.confidence = 9500}

\* The two endpoints share no ledger key (MessageKey prefixes the keys of
\* /messages/send, frame ids are UUIDs), so a run follows one client.
LedgerNext ==
    \/ Tick
    \/ \E p \in ApiProcs, inp \in LedgerFrameInputs :
          client = "gate" /\ FramesBegin(p, inp, TRUE)
    \/ \E p \in ApiProcs : client = "gate" /\ FramesBegin(p, BaseFrame, FALSE)
    \/ \E p \in ApiProcs, ok \in BOOLEAN : FramesCommit(p, ok)
    \/ \E p \in ApiProcs, ok \in BOOLEAN : FramesEnqueue(p, ok)
    \/ \E p \in ApiProcs, inp \in LedgerMessageInputs :
          client = "staff" /\ SendBegin(p, inp, TRUE)
    \/ \E p \in ApiProcs : client = "staff" /\ SendBegin(p, BaseMessage, FALSE)
    \/ \E p \in ApiProcs, ok \in BOOLEAN : SendCommit(p, ok)
    \/ \E p \in ApiProcs, ok \in BOOLEAN : SendEnqueue(p, ok)
    \/ \E w \in Workers, i \in 1..Len(queue), out \in {"ok", "secret_error"} :
          JobStart(w, i, out)
    \/ \E w \in Workers, out \in LedgerFaceOutcomes : RecogDecide(w, out)
    \/ \E w \in Workers, ok \in BOOLEAN : RecogCommit(w, ok)
    \/ \E w \in Workers, ok \in BOOLEAN : SendPrepare(w, ok)
    \/ \E w \in Workers, r \in SmsResults \cap {"sent", "timeout"}, ok \in BOOLEAN :
          SendCall(w, r, ok)

LedgerStart ==
    LedgerInit /\ RegistryIdle /\ ManagerIdle /\ RoutingInit /\ DeployInit /\ FacesIdle /\ RulesIdle /\ ProvIdle /\ TxnIdle /\ MNotifyIdle /\ LookupsIdle

SpecLedger == LedgerStart /\ [][LedgerNext]_vars

\* ------------------------------------------------- the Celery tasks alone
\* The tasks recognition_job and send_message_job take their arguments from
\* the task message; any producer with access to the broker can publish one.
MaxPublished == 2

TaskMessages ==
    LET r == [kind |-> "recognition", slug |-> "grace", frame_id |-> "f2",
              gate_id |-> "g1", captured_at |-> "10:00+00:00",
              request_hash |-> Sha256("x"), ref |-> "u9", image_b64 |-> "QQ==",
              session_id |-> NULL, face_present |-> "False",
              motion_score |-> NULL, body |-> NULL, rule_id |-> NULL]
    IN  {r,
         [r EXCEPT !.frame_id = "not-a-uuid"],
         SendArgs("grace", "u8", "hi"),
         SendArgs("grace", "not-a-uuid", "hi")}

Publish(job) ==
    /\ Len(queue) < MaxPublished
    /\ queue' = Append(queue, job)
    /\ delivered' = Append(delivered, 0)
    /\ Silent
    /\ UNCHANGED <<notLedger, client, now, settings, ledger, recog, visits, msgLogs,
                   gateSess, tenantCfg, apiKey, smsCalls, req, wrk, sessOpen>>

JobsNext ==
    \/ \E job \in TaskMessages : Publish(job)
    \/ \E w \in Workers, i \in 1..Len(queue), out \in {"ok", "secret_error"} :
          JobStart(w, i, out)
    \/ \E w \in Workers, out \in LedgerFaceOutcomes : RecogDecide(w, out)
    \/ \E w \in Workers, ok \in BOOLEAN : RecogCommit(w, ok)
    \/ \E w \in Workers, ok \in BOOLEAN : SendPrepare(w, ok)

SpecJobs == LedgerStart /\ [][JobsNext]_vars


\* ------------------------------------------------ the registry client alone
RegistryNext ==
    \/ \E raw \in RawSlugs : GetTenant(raw)
    \/ \E slug \in Slugs : \E answer \in UpstreamAnswers(slug) :
          DirectoryChange(slug, answer)
    \/ ClockTick

RegistryStart ==
    RegistryInit /\ LedgerIdle /\ ManagerIdle /\ RoutingInit /\ DeployInit /\ FacesIdle /\ RulesIdle /\ ProvIdle /\ TxnIdle /\ MNotifyIdle /\ LookupsIdle

SpecRegistry == RegistryStart /\ [][RegistryNext]_vars

\* ------------------------------------------------ the session manager alone
ManagerNext ==
    \/ \E t \in Threads, context \in Contexts, ok \in BOOLEAN :
          SessionBegin(t, context, ok)
    \/ \E t \in Threads : SessionLock(t)
    \/ \E t \in Threads : SessionGet(t)
    \/ \E t \in Threads : SessionCreate(t)
    \/ \E t \in Threads : SessionReturn(t)

ManagerStart ==
    ManagerInit /\ LedgerIdle /\ RegistryIdle /\ RoutingInit /\ DeployInit /\ FacesIdle /\ RulesIdle /\ ProvIdle /\ TxnIdle /\ MNotifyIdle /\ LookupsIdle

SpecSessions == ManagerStart /\ [][ManagerNext]_vars

\* --------------------------------------------- the resolution middleware
\* The API process of a deployment in dev or in prod, its registry client
\* fresh; the control plane knows grace, and hope is either known, unknown
\* or cannot be asked.
RoutingDirectories ==
    {[s \in Slugs |-> IF s = "grace"
                      THEN HttpAnswer(200, TenantRegistryRecord("grace", "db-1"))
                      ELSE answer] :
        answer \in {HttpAnswer(200, TenantRegistryRecord("hope", "db-2")),
                    HttpAnswer(404, NoRecord), HttpAnswer(500, NoRecord),
                    TransportError}}

RoutingNext ==
    \/ \E request \in Requests : Middleware(request)
    \/ ClockTick

RoutingStart ==
    /\ RoutingInit
    /\ RegistryInit
    /\ cache_ttl_seconds = DefaultCacheTtl
    /\ directory \in RoutingDirectories
    /\ ManagerInit
    /\ dns = {}
    /\ LedgerIdle
    /\ DeployInit /\ FacesIdle /\ RulesIdle /\ ProvIdle /\ TxnIdle /\ MNotifyIdle /\ LookupsIdle

SpecRouting == RoutingStart /\ [][RoutingNext]_vars

\* ------------------------------------------------------- the gate sessions
\* The tenant database before any gate session was issued.
GateInit ==
    /\ now = 0
    /\ settings \in Deployments
    /\ ledger = {}
    /\ recog = {}
    /\ visits = {}
    /\ msgLogs = {}
    /\ gateSess = {}
    /\ tenantCfg = {}
    /\ apiKey = NULL
    /\ smsCalls = <<>>
    /\ queue = <<>>
    /\ delivered = <<>>
    /\ req = [p \in ApiProcs |-> IdleReq]
    /\ resp = NoResp
    /\ wrk = [w \in Workers |-> IdleWrk]
    /\ sessOpen = [o \in ApiProcs \cup Workers |-> 0]
    /\ client = "gate"

\* Session requests arrive at both processes; the heartbeats and frames of
\* the run are served by the first.
GateNext ==
    \/ Tick
    \/ \E p \in ApiProcs, token \in BootstrapTokens : Redeploy(p, token)
    \/ \E p \in ApiProcs, inp \in AuthInputs : AuthBegin(p, inp, TRUE)
    \/ \E p \in ApiProcs, ok \in BOOLEAN : AuthCommit(p, ok)
    \/ \E inp \in HeartbeatInputs : Heartbeat("a1", inp, TRUE)
    \/ \E inp \in GateFrameInputs : FramesBegin("a1", inp, TRUE)
    \/ FramesCommit("a1", TRUE)
    \/ FramesEnqueue("a1", TRUE)

GateStart ==
    GateInit /\ RegistryIdle /\ ManagerIdle /\ RoutingInit /\ DeployInit /\ FacesIdle /\ RulesIdle /\ ProvIdle /\ TxnIdle /\ MNotifyIdle /\ LookupsIdle

SpecGate == GateStart /\ [][GateNext]_vars

\* ------------------------------------------- one gate agent and one worker
\* The agent of gate g1 submits frames with and without the face hint; its
\* frame ids are UUIDs in lower or in upper case (uuid.UUID accepts both).
\* The worker runs against every answer of the matching capability.
AgentFrameInputs ==
    LET b == [BaseFrame EXCEPT !.tok = "tok1"]
    IN  {[b EXCEPT !.frame_id = f, !.face_present = h] :
            f \in {"f1", "F1"}, h \in {"false", NULL}}

FramesNext ==
    \/ Tick
    \/ \E inp \in AgentFrameInputs : FramesBegin("a1", inp, TRUE)
    \/ FramesCommit("a1", TRUE)
    \/ FramesEnqueue("a1", TRUE)
    \/ \E i \in 1..Len(queue) : JobStart("w1", i, "ok")
    \/ \E out \in FaceOutcomes : RecogDecide("w1", out)
    \/ \E ok \in BOOLEAN : RecogCommit("w1", ok)

FramesStart ==
    /\ LedgerInit
    /\ client = "gate"
    /\ RegistryIdle
    /\ ManagerIdle
    /\ RoutingInit
    /\ DeployInit /\ FacesIdle /\ RulesIdle /\ ProvIdle /\ TxnIdle /\ MNotifyIdle /\ LookupsIdle

SpecFrames == FramesStart /\ [][FramesNext]_vars

\* ---------------------------------------------------- the face enrollment
PersonIds == {"p1", "p2", "p9", "not-a-uuid"}

FacesNext ==
    \/ \E person_id \in PersonIds, out \in DeleteOutcomes, ok \in BOOLEAN :
          DeleteFaces(person_id, out, ok)
    \/ \E person_id \in PersonIds, confirmed \in {NULL, "true", "maybe"},
          out \in EnrollOutcomes, ok \in BOOLEAN :
          EnrollFaces(person_id, confirmed, out, ok)

FacesStart ==
    /\ FacesInit
    /\ LedgerIdle
    /\ RegistryIdle
    /\ ManagerIdle
    /\ RoutingInit
    /\ DeployInit
    /\ RulesIdle /\ ProvIdle /\ TxnIdle /\ MNotifyIdle /\ LookupsIdle

SpecFaces == FacesStart /\ [][FacesNext]_vars

\* --------------------------------------------------------- the rule engine
\* Staff start rule runs and update follow-up tasks while two Celery workers
\* execute the jobs, each delivered once and handed to w1 when it is idle;
\* the visit history is on file, the mock SMS provider is configured.
\* Requests that are refused and database or broker failures of the API are
\* tried before the first run exists; an update changes the status.
RuleIds == {"rw", "ra", "rp", "rb", "r9", "not-a-uuid"}

FollowupIds == {"u9", "u8", "not-a-uuid"}

RulesNext ==
    \/ Tick
    \/ \E rule_id \in RuleIds, ok \in BOOLEAN, broker_ok \in BOOLEAN :
          /\ ruleRuns = {} \/ (ok /\ broker_ok /\ RuleRows(rule_id) # {})
          /\ RunRule(rule_id, ok, broker_ok)
    \/ \E id \in FollowupIds \cup {t.id : t \in tasks},
          status_value \in {"closed", "open"}, ok \in BOOLEAN :
          /\ \/ ruleRuns = {}
             \/ ok /\ \E t \in tasks : t.id = id /\ t.status # status_value
          /\ UpdateFollowup(id, status_value, ok)
    \/ \E w \in Workers, i \in 1..Len(queue) :
          /\ delivered[i] = 0
          /\ w = "w1" \/ wrk["w1"].pc # "idle"
          /\ JobStart(w, i, "ok")
    \/ \E w \in Workers, user \in EscalationUsers(userRoles), db \in DbStates :
          RuleEvaluate(w, user, db)
    \/ \E w \in Workers, db \in DbStates : RuleCommit(w, db)
    \/ \E w \in Workers, ok \in BOOLEAN : RuleDispatch(w, ok)
    \/ \E w \in Workers : SendPrepare(w, TRUE)
    \/ \E w \in Workers : SendCall(w, "sent", TRUE)

RulesStart ==
    /\ RulesInit
    /\ now = 0
    /\ settings = CHOOSE d \in Deployments : d.provider_mode = "mock"
    /\ ledger = {}
    /\ recog = {}
    /\ visits = RuleVisits
    /\ msgLogs = {}
    /\ gateSess = {IssuedSession("s1", "tok1", "g1", BootstrapToken, 0)}
    /\ tenantCfg = {}
    /\ apiKey = NULL
    /\ smsCalls = <<>>
    /\ queue = <<>>
    /\ delivered = <<>>
    /\ req = [p \in ApiProcs |-> IdleReq]
    /\ resp = NoResp
    /\ wrk = [w \in Workers |-> IdleWrk]
    /\ sessOpen = [o \in ApiProcs \cup Workers |-> 0]
    /\ client = "staff"
    /\ RegistryIdle
    /\ ManagerIdle
    /\ RoutingInit
    /\ DeployInit
    /\ FacesIdle
    /\ ProvIdle /\ TxnIdle /\ MNotifyIdle /\ LookupsIdle

SpecRules == RulesStart /\ [][RulesNext]_vars

\* ------------------------------------------------ the producers of the jobs
\* Every place that hands a job to the broker: POST /gate/frames, POST
\* /messages/send, POST /rules/{id}/run and run_rule_job.  The runs of the welcome
\* rule execute on worker w1; the jobs they and the API produce stay with the
\* broker.
DispatchMessage ==
    [BaseMessage EXCEPT !.key = "k2", !.person_id = "p1", !.template_id = "tpl1",
                        !.to_phone = NULL, !.body = NULL, !.context = "p1"]

DispatchNext ==
    \/ FramesBegin("a1", [BaseFrame EXCEPT !.tok = "tok1"], TRUE)
    \/ \E ok \in BOOLEAN : FramesCommit("a1", ok)
    \/ \E ok \in BOOLEAN : FramesEnqueue("a1", ok)
    \/ SendBegin("a1", DispatchMessage, TRUE)
    \/ \E ok \in BOOLEAN : SendCommit("a1", ok)
    \/ \E ok \in BOOLEAN : SendEnqueue("a1", ok)
    \/ RunRule("rw", TRUE, TRUE)
    \/ \E i \in 1..Len(queue) :
          /\ queue[i].kind = "rule"
          /\ delivered[i] = 0
          /\ JobStart("w1", i, "ok")
    \/ \E db \in DbStates : RuleEvaluate("w1", NULL, db)
    \/ \E db \in DbStates : RuleCommit("w1", db)
    \/ \E ok \in BOOLEAN : RuleDispatch("w1", ok)

DispatchStart == RulesStart /\ userRoles = {}

SpecDispatch == DispatchStart /\ [][DispatchNext]_vars

\* ------------------------------------------------------- the control plane
\* Two request threads of the control plane serve POST /tenants for two
\* slugs, with and without an Idempotency-Key.
TenantRequests ==
    {[slug |-> "grace", name |-> "Grace Church", key |-> "k1"],
     [slug |-> " Grace", name |-> "Grace Church ", key |-> "k1"],
     [slug |-> "hope", name |-> "Hope Church", key |-> "k1"],
     [slug |-> "hope", name |-> "Hope Church", key |-> NULL],
     [slug |-> "no_good", name |-> "Hope Church", key |-> NULL]}

ProvNext ==
    \/ \E p \in ApiProcs, inp \in TenantRequests : ProvisionBegin(p, inp)
    \/ \E p \in ApiProcs, ok \in BOOLEAN, admin_ok \in BOOLEAN :
          ProvisionCommit(p, ok, admin_ok)
    \/ \E p \in ApiProcs, out \in CreateOutcomes, h \in HandlerStates :
          ProvisionCreate(p, out, h)
    \/ \E p \in ApiProcs, out \in {"ok", "error"}, h \in HandlerStates :
          ProvisionSetup(p, out, h)
    \/ \E p \in ApiProcs, ok \in BOOLEAN, h \in HandlerStates :
          ProvisionFinal(p, ok, h)

ProvStart ==
    /\ ProvInit
    /\ LedgerIdle
    /\ RegistryIdle
    /\ ManagerIdle
    /\ RoutingInit
    /\ DeployInit
    /\ FacesIdle
    /\ RulesIdle
    /\ TxnIdle /\ MNotifyIdle /\ LookupsIdle

SpecProv == ProvStart /\ [][ProvNext]_vars

\* ---------------------------------------- provisioning and tenant resolution
ResolveNext ==
    \/ ProvNext
    \/ \E raw \in {"grace", " Grace", "hope"} : ResolveTenant(raw)

SpecResolve == ProvStart /\ [][ResolveNext]_vars

\* ------------------------------------------- transactions and provider calls
TxnNext ==
    \/ \E face_present \in {"True", "False"}, configured \in BOOLEAN :
          RecognitionReads(face_present, configured)
    \/ \E ok \in BOOLEAN : RecognitionEnsured(ok)
    \/ \E out \in FaceOutcomes : RecognitionRecognized(out)
    \/ RecognitionRecord
    \/ \E plan \in {"skip", "missing_body", "messaging_not_configured", "call"} :
          SendJobReads(plan)
    \/ SendJobSent
    \/ SendJobRecord
    \/ \E accepted \in BOOLEAN : EnrollReads(accepted)
    \/ \E ok \in BOOLEAN, has_images \in BOOLEAN : EnrollEnsured(ok, has_images)
    \/ \E has_faces \in BOOLEAN : EnrollEnrolled(has_faces)
    \/ EnrollRecord
    \/ \E has_faces \in BOOLEAN : DeleteReads(has_faces)
    \/ \E ok \in BOOLEAN : DeleteEnsured(ok)
    \/ \E ok \in BOOLEAN : DeleteDeleted(ok)
    \/ DeleteRecord

TxnStart ==
    /\ TxnInit
    /\ LedgerIdle
    /\ RegistryIdle
    /\ ManagerIdle
    /\ RoutingInit
    /\ DeployInit
    /\ FacesIdle
    /\ RulesIdle
    /\ ProvIdle
    /\ MNotifyIdle /\ LookupsIdle

SpecTxn == TxnStart /\ [][TxnNext]_vars

\* ----------------------------------------------- the messaging pipeline alone
\* PROVIDER_MODE and MESSAGING_MODE are separate settings (config.py 15, 19;
\* tests/conftest.py sets PROVIDER_MODE=mock and leaves MESSAGING_MODE at
\* mnotify); a tenant has the configuration key mnotify_api_key or not.
MessagingDeployments ==
    {[gate_frame_cooldown_seconds |-> 0, provider_mode |-> pm, messaging_mode |-> mm] :
        pm \in {"auto", "mock"}, mm \in {"mnotify", "mock"}}

MessagingNext ==
    \/ \E p \in ApiProcs, inp \in {BaseMessage, [BaseMessage EXCEPT !.body = "yo"]} :
          SendBegin(p, inp, TRUE)
    \/ \E p \in ApiProcs : SendCommit(p, TRUE)
    \/ \E p \in ApiProcs, ok \in BOOLEAN : SendEnqueue(p, ok)
    \/ \E w \in Workers, i \in 1..Len(queue) : JobStart(w, i, "ok")
    \/ \E w \in Workers, ok \in BOOLEAN : SendPrepare(w, ok)
    \/ \E w \in Workers, r \in SmsResults, ok \in BOOLEAN : SendCall(w, r, ok)

MessagingStart ==
    /\ now = 0
    /\ settings \in MessagingDeployments
    /\ ledger = {}
    /\ recog = {}
    /\ visits = {}
    /\ msgLogs = {}
    /\ gateSess = {}
    /\ tenantCfg = {}
    /\ apiKey \in {NULL, "key"}
    /\ smsCalls = <<>>
    /\ queue = <<>>
    /\ delivered = <<>>
    /\ req = [p \in ApiProcs |-> IdleReq]
    /\ resp = NoResp
    /\ wrk = [w \in Workers |-> IdleWrk]
    /\ sessOpen = [o \in ApiProcs \cup Workers |-> 0]
    /\ client = "staff"
    /\ RegistryIdle
    /\ ManagerIdle
    /\ RoutingInit
    /\ DeployInit
    /\ FacesIdle
    /\ RulesIdle
    /\ ProvIdle
    /\ TxnIdle /\ MNotifyIdle /\ LookupsIdle

SpecMessaging == MessagingStart /\ [][MessagingNext]_vars

\* ------------------------------------------------------ the mNotify client
MNotifyNext ==
    \/ SendSmsCalled
    \/ \E answer \in HttpAnswers : SendSmsAttempt(answer)

MNotifyStart ==
    /\ MNotifyInit
    /\ LedgerIdle
    /\ RegistryIdle
    /\ ManagerIdle
    /\ RoutingInit
    /\ DeployInit
    /\ FacesIdle
    /\ RulesIdle
    /\ ProvIdle
    /\ TxnIdle
    /\ LookupsIdle

SpecMNotify == MNotifyStart /\ [][MNotifyNext]_vars

\* ------------------------------------------- the confidence threshold alone
\* The rows PATCH /config may have stored for a tenant, in hundredths:
\* 0.9, 1, 1.5 and 85 for recognition_threshold, 0.9 and 95 for
\* rekognition_min_confidence; a key may have no row.
ThresholdConfigs ==
    {{[key |-> "recognition_threshold", value |-> v] : v \in a}
     \cup {[key |-> "rekognition_min_confidence", value |-> v] : v \in b} :
        a \in {{}, {90}, {100}, {150}, {8500}}, b \in {{}, {90}, {9500}}}

ThresholdJobs ==
    {[kind |-> "recognition", slug |-> "grace", frame_id |-> f,
      gate_id |-> "g1", captured_at |-> "10:00+00:00",
      request_hash |-> Sha256("x"), ref |-> "u9", image_b64 |-> "QQ==",
      session_id |-> NULL, face_present |-> "True",
      motion_score |-> NULL, body |-> NULL, rule_id |-> NULL] : f \in {"f1"}}

ThresholdNext ==
    \/ \E job \in ThresholdJobs : Publish(job)
    \/ \E w \in Workers, i \in 1..Len(queue) : JobStart(w, i, "ok")
    \/ \E w \in Workers, out \in FaceOutcomes : RecogDecide(w, out)
    \/ \E w \in Workers, ok \in BOOLEAN : RecogCommit(w, ok)

ThresholdStart ==
    /\ now = 0
    /\ settings = CHOOSE d \in Deployments : d.provider_mode = "mock"
    /\ ledger = {}
    /\ recog = {}
    /\ visits = {}
    /\ msgLogs = {}
    /\ gateSess = {}
    /\ tenantCfg \in ThresholdConfigs
    /\ apiKey = NULL
    /\ smsCalls = <<>>
    /\ queue = <<>>
    /\ delivered = <<>>
    /\ req = [p \in ApiProcs |-> IdleReq]
    /\ resp = NoResp
    /\ wrk = [w \in Workers |-> IdleWrk]
    /\ sessOpen = [o \in ApiProcs \cup Workers |-> 0]
    /\ client = "gate"
    /\ RegistryIdle
    /\ ManagerIdle
    /\ RoutingInit
    /\ DeployInit
    /\ FacesIdle
    /\ RulesIdle
    /\ ProvIdle
    /\ TxnIdle
    /\ MNotifyIdle /\ LookupsIdle

SpecThreshold == ThresholdStart /\ [][ThresholdNext]_vars

\* ------------------------------------------- the registry client, threaded
\* what the control plane answers for grace while the calls run
LookupAnswers ==
    {HttpAnswer(200, TenantRegistryRecord("grace", h)) : h \in DbHosts}
        \cup {HttpAnswer(404, NoRecord)}

LookupsNext ==
    \/ \E raw \in RawSlugs : LookupBegin("t1", raw)
    \/ LookupBegin("t2", "grace")
    \/ \E th \in RegistryThreads : LookupFetch(th)
    \/ \E th \in RegistryThreads : LookupStore(th)
    \/ \E answer \in LookupAnswers : DirectoryChange("grace", answer)
    \/ ClockTick

LookupsStart ==
    /\ LookupsInit
    /\ RegistryInit
    /\ cache_ttl_seconds \in {0, DefaultCacheTtl}
    /\ directory = [s \in Slugs |-> HttpAnswer(200, TenantRegistryRecord(s, "db-1"))]
    /\ LedgerIdle
    /\ ManagerIdle
    /\ RoutingInit
    /\ DeployInit
    /\ FacesIdle
    /\ RulesIdle
    /\ ProvIdle
    /\ TxnIdle
    /\ MNotifyIdle

SpecLookups == LookupsStart /\ [][LookupsNext]_vars

\* ------------------------------------------------------ claims on the ledger
\* the tables and the queue a submission may touch
effects == <<ledger, recog, visits, msgLogs, queue, delivered>>

\* a frame form whose fields parse, so that its request hash is defined
FrameParses(inp) ==
    /\ UuidParse(inp.frame_id) # "invalid"
    /\ UuidParse(inp.gate_id) # "invalid"
    /\ ParseDatetime(inp.captured_at) # "invalid"
    /\ ParseMotion(inp.motion_score) # "invalid"
    /\ ParseOptionalBool(inp.face_present) # "invalid"

StoredWithHash(key, hash) == \E r \in ledger : r.key = key /\ r.request_hash = hash
StoredWithOtherHash(key, hash) ==
    \E r \in ledger : r.key = key /\ r.request_hash # hash
StoredRef(key) == (CHOOSE r \in ledger : r.key = key).response_ref

\* thread p takes the first step of a handler: it answers or goes on to commit
Begins(p) == req[p].pc = "idle" /\ (resp' # NoResp \/ req'[p].pc = "commit")

\* a replay: the stored response_ref, flagged idempotent, nothing executed
Replayed(key) ==
    /\ resp' = Response(200, StoredRef(key), TRUE)
    /\ UNCHANGED effects

\* a conflict: HTTP 409, nothing changed
Conflicted ==
    /\ resp' = Response(409, NULL, FALSE)
    /\ UNCHANGED effects

\* C1 as stated: every resubmission of a key that the ledger holds with an equal
\* request hash is answered with the stored response_ref, flagged idempotent,
\* and changes no ledger row, no result or message row and no queue.
C1_ReplayOfEveryResubmission ==
    [][/\ \A p \in ApiProcs, inp \in LedgerFrameInputs :
            (/\ Begins(p)
             /\ inp.tok # NULL
             /\ FrameParses(inp)
             /\ StoredWithHash(inp.frame_id, FrameHash(inp))
             /\ FramesBegin(p, inp, TRUE))
            => Replayed(inp.frame_id)
       /\ \A p \in ApiProcs, inp \in LedgerMessageInputs :
            (/\ Begins(p)
             /\ SendPrecheck(inp) = 0
             /\ inp.key # NULL
             /\ StoredWithHash(MessageKey(inp.key), SendHash(inp))
             /\ SendBegin(p, inp, TRUE))
            => Replayed(MessageKey(inp.key))]_ledgerVars

\* C1, amended: a resubmission that passes the checks gate_frames makes before
\* its ledger lookup (gate session, gate, cooldown), respectively the
\* validations of send_message, and whose key the ledger holds with an equal
\* request hash, is answered with the stored response_ref, flagged idempotent,
\* and changes no ledger row, no result or message row and no queue.
C1_ReplayPastTheChecks ==
    [][/\ \A p \in ApiProcs, inp \in LedgerFrameInputs :
            (/\ Begins(p)
             /\ FramesPrecheck(inp, now) = 0
             /\ StoredWithHash(inp.frame_id, FrameHash(inp))
             /\ FramesBegin(p, inp, TRUE))
            => Replayed(inp.frame_id)
       /\ \A p \in ApiProcs, inp \in LedgerMessageInputs :
            (/\ Begins(p)
             /\ SendPrecheck(inp) = 0
             /\ inp.key # NULL
             /\ StoredWithHash(MessageKey(inp.key), SendHash(inp))
             /\ SendBegin(p, inp, TRUE))
            => Replayed(MessageKey(inp.key))]_ledgerVars

\* a replay of a recognised frame has just been answered with the job id
C1_Witness ==
    /\ resp.status = 200
    /\ resp.idem
    /\ \E r \in ledger : /\ r.scope = "visit_event"
                         /\ r.response_ref = resp.ref
                         /\ r.status = "succeeded"
    /\ \E i \in 1..Len(queue) : queue[i].ref = resp.ref

\* C2 as stated: every submission of a key that the ledger holds with another
\* request hash fails with HTTP 409 and leaves the ledger row, the result and
\* message rows and the queue unchanged.
C2_ConflictOfEveryReuse ==
    [][/\ \A p \in ApiProcs, inp \in LedgerFrameInputs :
            (/\ Begins(p)
             /\ inp.tok # NULL
             /\ FrameParses(inp)
             /\ StoredWithOtherHash(inp.frame_id, FrameHash(inp))
             /\ FramesBegin(p, inp, TRUE))
            => Conflicted
       /\ \A p \in ApiProcs, inp \in LedgerMessageInputs :
            (/\ Begins(p)
             /\ SendPrecheck(inp) = 0
             /\ inp.key # NULL
             /\ StoredWithOtherHash(MessageKey(inp.key), SendHash(inp))
             /\ SendBegin(p, inp, TRUE))
            => Conflicted]_ledgerVars

\* C2, amended: a submission that passes the checks gate_frames makes before
\* its ledger lookup (gate session, gate, cooldown), respectively the
\* validations of send_message, and whose key the ledger holds with another
\* request hash, fails with HTTP 409 and leaves the ledger row, the result and
\* message rows and the queue unchanged.
C2_ConflictPastTheChecks ==
    [][/\ \A p \in ApiProcs, inp \in LedgerFrameInputs :
            (/\ Begins(p)
             /\ FramesPrecheck(inp, now) = 0
             /\ StoredWithOtherHash(inp.frame_id, FrameHash(inp))
             /\ FramesBegin(p, inp, TRUE))
            => Conflicted
       /\ \A p \in ApiProcs, inp \in LedgerMessageInputs :
            (/\ Begins(p)
             /\ SendPrecheck(inp) = 0
             /\ inp.key # NULL
             /\ StoredWithOtherHash(MessageKey(inp.key), SendHash(inp))
             /\ SendBegin(p, inp, TRUE))
            => Conflicted]_ledgerVars

\* a key reuse with another payload has just been refused, the first
\* submission's job still queued once
C2_Witness ==
    /\ resp.status = 409
    /\ ledger # {}
    /\ Len(queue) = 1

\* C3: in every reachable state there is at most one RecognitionResult row and
\* at most one VisitEvent row per frame_id, and no step removes or changes a
\* RecognitionResult row.
C3_OneResultPerFrame ==
    /\ [](\A f \in Uuids :
            /\ Cardinality({r \in recog : r.frame_id = f}) <= 1
            /\ Cardinality({v \in visits : v.frame_id = f}) <= 1)
    /\ [][recog \subseteq recog']_ledgerVars

\* a second execution for a frame that has its result row is about to commit
\* a different decision
C3_Witness ==
    \E w \in Workers :
        /\ wrk[w].pc = "recog_commit"
        /\ \E r \in recog :
              /\ r.frame_id = queue[wrk[w].job].frame_id
              /\ r.decision # wrk[w].dec.decision

\* C4 as stated: of two concurrent first attempts with one key, the one that
\* commits second completes as a replay: with the database healthy, its commit
\* step answers with the stored response_ref of the winner.
C4_LoserCompletesAsReplay ==
    [][\A p \in ApiProcs :
          (/\ FramesCommit(p, TRUE) \/ SendCommit(p, TRUE)
           /\ \E r \in ledger : r.key = req[p].key)
          => resp' = Response(200, StoredRef(req[p].key), TRUE)]_ledgerVars

C5_CacheAnswersIffFresh ==
    [][\A raw \in RawSlugs :
          GetTenant(raw) =>
              LET slug == IF raw \in {"grace", " Grace "} THEN "grace" ELSE "hope"
                  entry == cache[slug]
                  fresh == entry.expiry # NoTime /\ clock < entry.expiry
              IN  /\ (lookup'.calls = 0) <=> fresh
                  /\ fresh => /\ lookup'.kind = "record"
                              /\ lookup'.record = entry.record
                              /\ cache' = cache
                  /\ ~fresh =>
                        /\ lookup'.calls = 1
                        /\ (lookup'.kind = "record" /\ cache_ttl_seconds > 0) =>
                              /\ cache'[slug].expiry = clock + cache_ttl_seconds
                              /\ cache'[slug].record = lookup'.record
                              /\ lookup'.record = directory[slug].record
                  /\ cache_ttl_seconds <= 0 => lookup'.calls = 1]_vars

\* a lookup of " Grace " answered from the entry of "grace", one tick or more
\* after that entry was written
C5_Witness ==
    /\ lookup.raw = " Grace "
    /\ lookup.calls = 0
    /\ lookup.kind = "record"
    /\ clock > 0
    /\ cache["grace"].expiry > clock

\* C6 -- a get_tenant call that raises (404 or any other failure) leaves the
\* cache as it was, and while the control plane keeps answering 404 for a
\* slug after a lookup that ended NotFound, every further call for the slug
\* makes an upstream call and ends NotFound again.
C6_FailuresAreNotCached ==
    [][\A raw \in RawSlugs :
          GetTenant(raw) =>
              /\ lookup'.kind = "raised" => cache' = cache
              /\ notFoundRun[Normalize(raw)] > 0 =>
                    /\ lookup'.calls = 1
                    /\ lookup'.kind = "raised"
                    /\ lookup'.error = "TenantRegistryError"
                    /\ lookup'.status_code = 404]_vars

\* the slug has failed NotFound several times in a row, after a time in
\* which it was known: its expired entry is still in the cache
C6_Witness ==
    /\ notFoundRun["grace"] >= 2
    /\ lookup.calls = 1
    /\ lookup.status_code = 404
    /\ cache["grace"].expiry # NoTime

\* C7 -- a get_tenant call that goes upstream ends in TenantRegistryError 404
\* when the answer is 404 and in TenantRegistryError 502 on every other
\* non-2xx answer and on a transport error, and the middleware answers the
\* request with 404 resp. 502.
C7_FailuresMapTo404And502 ==
    [][\A raw \in RawSlugs :
          (GetTenant(raw) /\ lookup'.calls = 1) =>
              LET answer == directory[Normalize(raw)]
              IN  /\ (answer.kind = "response" /\ answer.status_code = 404) =>
                        /\ lookup'.error = "TenantRegistryError"
                        /\ lookup'.status_code = 404
                        /\ lookup'.http = 404
                  /\ (\/ answer.kind = "transport_error"
                      \/ /\ answer.status_code # 404
                         /\ answer.status_code \notin 200..299) =>
                        /\ lookup'.error = "TenantRegistryError"
                        /\ lookup'.status_code = 502
                        /\ lookup'.http = 502]_vars

\* ============================================== session manager, claims
DiffersOnlyInSecret(c1, c2) ==
    /\ c1.secret_ref # c2.secret_ref
    /\ [c1 EXCEPT !.secret_ref = c2.secret_ref] = c2

\* the sessions handed out or about to be: the one just returned and those of
\* the calls that have left the locked block
Handed ==
    {[context |-> call[t].context, cache_key |-> call[t].cache_key,
      factory |-> call[t].factory] : t \in {u \in Threads : call[u].pc = "return"}}
        \cup (IF returned.thread = NULL THEN {}
              ELSE {[context |-> returned.context, cache_key |-> returned.cache_key,
                     factory |-> returned.factory]})

\* C8 -- under every interleaving of get_session calls: the factory cache has
\* one entry per key host:port:db_name:db_user:secret_ref and every factory
\* ever created is the entry of exactly one key (no duplicate pools); a
\* session handed out for a key comes from the factory cached under that key;
\* an entry of the cache is never removed or replaced; contexts that differ
\* only in secret_ref are served by different factories.
C8_OneFactoryPerIdentity ==
    /\ [](\A e1, e2 \in engine_cache :
             (e1.key = e2.key \/ e1.factory = e2.factory) => e1 = e2)
    /\ [](Len(factories) = Cardinality(engine_cache))
    /\ [](\A s \in Handed :
             Cached(s.cache_key) = {[key |-> s.cache_key, factory |-> s.factory]})
    /\ [](\A s1, s2 \in Handed :
             DiffersOnlyInSecret(s1.context, s2.context) => s1.factory # s2.factory)
    /\ [][engine_cache \subseteq engine_cache']_vars

\* two concurrent calls for one identity have both left the locked block with
\* the same factory, while another identity has its own factory
C8_Witness ==
    \E t1, t2 \in Threads :
        /\ t1 # t2
        /\ call[t1].pc = "return"
        /\ call[t2].pc = "return"
        /\ call[t1].cache_key = call[t2].cache_key
        /\ call[t1].factory = call[t2].factory
        /\ Len(factories) >= 2

\* C9 (as stated) -- the session returned for a context is connected to the
\* context's db_host, db_port, db_name and db_user.
C9_BoundToContextHost ==
    returned.thread # NULL =>
        factories[returned.factory].url =
            BuildUrl([host |-> returned.context.db_host,
                      port |-> returned.context.db_port,
                      name |-> returned.context.db_name,
                      user |-> returned.context.db_user,
                      password |-> SecretStoreGet(returned.context.secret_ref)])

\* C9 (amended) -- the session returned for a context is connected to the
\* context's db_port, db_name and db_user, on the context's db_host or, in env
\* dev when that host does not resolve, on localhost; it is never connected to
\* the database of another tenant.
C9_BoundToOwnDatabase ==
    returned.thread # NULL =>
        LET own == returned.context
            url == factories[returned.factory].url
            UrlOf(c, host) ==
                BuildUrl([host |-> host, port |-> c.db_port, name |-> c.db_name,
                          user |-> c.db_user,
                          password |-> SecretStoreGet(c.secret_ref)])
        IN  /\ url = UrlOf(own, IF env = "dev" /\ own.db_host \notin dns
                                THEN "localhost" ELSE own.db_host)
            /\ \A other \in Contexts :
                  other.tenant_id # own.tenant_id =>
                      \A host \in {other.db_host, "localhost"} :
                          url # UrlOf(other, host)

\* in dev, with a database host that does not resolve, the second tenant gets
\* its session after the first tenant's factory was created
C9_Witness ==
    /\ returned.thread # NULL
    /\ returned.context.slug = "hope"
    /\ env = "dev"
    /\ "db-1" \notin dns
    /\ Len(factories) >= 2

\* ===================================================== resolution, claims
\* the request just served went through the slug resolution
Resolving ==
    /\ served.state # "none"
    /\ served.request.method # "OPTIONS"
    /\ served.request.path = "/v1/tenant-info"

\* C11 -- outside development the X-Tenant-Slug header has no influence: the
\* request is refused with 400 and no registry call when its Host header is
\* missing, an IP literal, localhost or without a dot, a request that is
\* resolved is resolved to the lower-cased leftmost label of its Host header,
\* and the same request with any other X-Tenant-Slug header (or none) ends
\* the same way.  In development a header that is present (not empty) gives
\* the slug, trimmed and lower-cased, whatever the Host header is.
C11_HeaderIgnoredOutsideDev ==
    Resolving =>
        LET host == served.request.host
            header == served.request.x_tenant_slug
            refused == served.state = "rejected" /\ served.calls = 0
        IN  /\ env # "dev" =>
                  /\ host \in {NULL, "127.0.0.1", "10.0.0.7:80", "localhost:8000",
                               "gracechurch"}
                        => refused /\ served.status = 400
                  /\ ~refused =>
                        /\ host \in {"grace.example.com", "Hope.example.com:8000"}
                        /\ served.slug = IF host = "grace.example.com"
                                         THEN "grace" ELSE "hope"
                  /\ \A other \in SlugHeaders :
                        ResolveSlug([served.request EXCEPT
                                        !.x_tenant_slug = other], env)
                            = IF refused THEN [status_code |-> 400, slug |-> NULL]
                              ELSE [status_code |-> 0, slug |-> served.slug]
            /\ (env = "dev" /\ header \in {" Grace ", "hope"}) =>
                  /\ ~refused
                  /\ served.slug = IF header = "hope" THEN "hope" ELSE "grace"

\* in prod a request for grace's host that names hope in its header has been
\* resolved to grace
C11_Witness ==
    /\ env = "prod"
    /\ served.request.host = "grace.example.com"
    /\ served.request.x_tenant_slug = "hope"
    /\ served.state = "resolved"
    /\ served.tenant.slug = "grace"

gateEffects == <<ledger, recog, visits, msgLogs, gateSess, tenantCfg, queue, delivered>>

\* request slot p refuses the request it has just taken, and changes nothing
Refused(p, status) ==
    /\ resp' = Response(status, NULL, FALSE)
    /\ req'[p].pc = "idle"
    /\ UNCHANGED gateEffects

\* the sessions of a gate that are active
ActiveOf(sessions, gate_id) ==
    {s \in sessions : s.gate_id = gate_id /\ s.status = "active"}

\* C13 as stated: in every reachable state each gate has at most one
\* GateAgentSession with status active; the commit that inserts a new active
\* session leaves no other session of its gate active; and a session that is
\* revoked is never active again.
C13_OneActiveSessionPerGate ==
    /\ [](\A g \in Gates : Cardinality(ActiveOf(gateSess, g.id)) <= 1)
    /\ [][\A p \in ApiProcs :
            (AuthCommit(p, TRUE) /\ gateSess' # gateSess) =>
                ActiveOf(gateSess', req[p].key) = {req[p].row.new}]_vars
    /\ [][\A s \in gateSess :
            s.status = "revoked" =>
                \A n \in gateSess' : n.id = s.id => n.status = "revoked"]_vars

\* C14 as stated: a heartbeat or a frame submission that presents the token
\* of a session whose status is not active is refused with 403, one that
\* presents no token or a token of no session with 401, and one that presents
\* the token of an active session whose expires_at is reached with 401; the
\* handler does not run and no row and no queue changes.  Once a session has
\* been issued for a gate, every session the gate had before is not active
\* and stays so: requests bearing their tokens get 403 from then on.
C14_StaleTokenRefused ==
    [][/\ \A tok \in {NULL, "tok1", "tok2", "nope"} :
            LET rows == {s \in gateSess : s.token = tok}
            IN  (\/ \E inp \in HeartbeatInputs :
                       /\ PresentedToken(inp.authorization,
                                         inp.gate_session_header) = tok
                       /\ Heartbeat("a1", inp, TRUE)
                 \/ \E inp \in GateFrameInputs :
                       inp.tok = tok /\ FramesBegin("a1", inp, TRUE))
                =>
                /\ (\E s \in rows : s.status # "active") => Refused("a1", 403)
                /\ (tok = NULL \/ rows = {}) => Refused("a1", 401)
                /\ (\E s \in rows : s.status = "active" /\ s.expires_at <= now)
                      => Refused("a1", 401)
       /\ \A p \in ApiProcs :
            (AuthCommit(p, TRUE) /\ gateSess' # gateSess) =>
                \A s \in gateSess :
                    s.gate_id = req[p].key =>
                        \E n \in gateSess' : n.id = s.id /\ n.status # "active"
       /\ \A s \in gateSess :
            s.status # "active" =>
                \E n \in gateSess' : n.id = s.id /\ n.status = s.status]_vars

\* C15 as stated: every POST /gate/auth/session with a bootstrap token from
\* which a session has been created is answered 409; an unknown or inactive
\* gate is answered 403 and a token that is not the configured one 401; none
\* of these creates or revokes a session.
C15_EveryReuseRefused ==
    [][\A p \in ApiProcs, inp \in AuthInputs :
          (/\ inp.gate_id \in {"g1", "g2", "f2"}
           /\ inp.bootstrap_token # NULL
           /\ AuthBegin(p, inp, TRUE))
          =>
          /\ (\E s \in gateSess : s.bootstrap = inp.bootstrap_token)
                => Refused(p, 409)
          /\ (/\ inp.gate_id \in {"g2", "f2"}
              /\ ~\E s \in gateSess : s.bootstrap = inp.bootstrap_token)
                => Refused(p, 403)
          /\ (/\ inp.bootstrap_token # bootstrap[p]
              /\ inp.gate_id = "g1"
              /\ ~\E s \in gateSess : s.bootstrap = inp.bootstrap_token)
                => Refused(p, 401)]_vars

\* C15, amended: a POST /gate/auth/session for an active gate with the
\* configured bootstrap token, from which a session has been created, is
\* answered 409; a request for an unknown or inactive gate is answered 403
\* whatever its token is, and a request for an active gate with a token that
\* is not the configured one 401, used or not; none of these creates or
\* revokes a session.
C15_ReuseRefusedPastTheChecks ==
    [][\A p \in ApiProcs, inp \in AuthInputs :
          (/\ inp.gate_id \in {"g1", "g2", "f2"}
           /\ inp.bootstrap_token # NULL
           /\ AuthBegin(p, inp, TRUE))
          =>
          /\ (/\ inp.gate_id = "g1"
              /\ inp.bootstrap_token = bootstrap[p]
              /\ \E s \in gateSess : s.bootstrap = inp.bootstrap_token)
                => Refused(p, 409)
          /\ inp.gate_id \in {"g2", "f2"} => Refused(p, 403)
          /\ (inp.gate_id = "g1" /\ inp.bootstrap_token # bootstrap[p])
                => Refused(p, 401)]_vars

\* a reuse of the bootstrap token has just been refused with 409, the
\* session created from it still the only one and active
C15_Witness ==
    /\ resp.status = 409
    /\ Cardinality(gateSess) = 1
    /\ \A s \in gateSess : s.status = "active" /\ s.bootstrap = "boot"
    /\ \A p \in ApiProcs : req[p].pc = "idle"

\* C16 -- with a cooldown above 0, a frame submission of an accepted session
\* for its own, active gate, whose session's last_frame_at is less than the
\* cooldown ago, is refused with 429 and changes no ledger row, no session
\* row and no queue; a session's last_frame_at changes only in the commit
\* that adds the ledger row of a new frame, to the time of that submission;
\* with a cooldown of 0 no submission is answered 429.
C16_CooldownRefusesWithoutTrace ==
    [][/\ \A inp \in GateFrameInputs :
            (/\ FramesBegin("a1", inp, TRUE)
             /\ inp.frame_id = "f1"
             /\ inp.gate_id = "g1"
             /\ settings.gate_frame_cooldown_seconds > 0
             /\ \E s \in gateSess :
                   /\ s.token = inp.tok
                   /\ s.status = "active"
                   /\ s.expires_at > now
                   /\ s.gate_id = "g1"
                   /\ s.last_frame_at # NoTime
                   /\ now - s.last_frame_at < settings.gate_frame_cooldown_seconds)
            => Refused("a1", 429)
       /\ \A s \in gateSess, n \in gateSess' :
            (n.id = s.id /\ n.last_frame_at # s.last_frame_at) =>
                /\ req["a1"].op = "frames"
                /\ n.token = req["a1"].tok
                /\ n.last_frame_at = req["a1"].t
                /\ ledger' = ledger \cup {r \in ledger' : r.key = req["a1"].key}
                /\ ledger' # ledger
       /\ \A n \in gateSess' :
            (\A s \in gateSess : s.id # n.id) => n.last_frame_at = NoTime
       /\ settings.gate_frame_cooldown_seconds = 0 => resp'.status # 429]_vars

\* a submission has just been refused with 429, one frame accepted and
\* queued before it
C16_Witness ==
    /\ resp.status = 429
    /\ Cardinality(ledger) = 1
    /\ Len(queue) = 1
    /\ \E s \in gateSess : s.last_frame_at # NoTime /\ s.status = "active"

\* ================================================ recognition_job, claims
\* C17 as stated: the decision of recognition_job equals the reference table
\* for every input: face_present false gives unknown / no_face and the
\* matching capability is not called; a capability that is not configured or
\* raises gives error / error; no best candidate gives unknown / no_match; a
\* best confidence below the threshold gives unknown / below_threshold; a
\* best confidence at or above the threshold gives matched with the person of
\* the active profile of that face id, and unknown / no_match when no active
\* profile has it.
C17_DecisionTable ==
    [][\A w \in Workers, out \in FaceOutcomes :
          RecogDecide(w, out) =>
             LET face_present == queue[wrk[w].job].face_present
                 dec == wrk'[w].dec
                 active == {f \in FaceProfiles :
                               f.face_id = out.face_id /\ f.status = "active"}
                 is(decision, reason) ==
                     /\ wrk'[w].pc = "recog_commit"
                     /\ dec.decision = decision
                     /\ dec.rejection_reason = reason
             IN  CASE face_present = "False" ->
                        /\ is("unknown", "no_face")
                        /\ dec.best_face_id = NULL
                        /\ dec.matches = {}
                   [] face_present # "False" /\ out.kind # "result" ->
                        is("error", "error") /\ dec.person_id = NULL
                   [] OTHER ->
                        IF out.face_id = NULL
                        THEN is("unknown", "no_match")
                        ELSE IF out.confidence < MinConfidence
                        THEN is("unknown", "below_threshold")
                        ELSE IF active # {}
                        THEN /\ is("matched", NULL)
                             /\ \E f \in active : dec.person_id = f.person_id
                        ELSE is("unknown", "no_match") /\ dec.person_id = NULL]_vars

\* C18 as stated: in every committed state a frame has a RecognitionResult
\* row iff it has a VisitEvent row, the two carry the same person_id, the
\* VisitEvent's status is matched iff its person_id is set, and whenever the
\* rows exist the idempotency record stored for the frame has status
\* succeeded and the job id as its response_ref.
C18_RowsAndLedgerAgree ==
    /\ \A f \in Uuids :
          (\E r \in recog : r.frame_id = f) <=> (\E v \in visits : v.frame_id = f)
    /\ \A r \in recog, v \in visits :
          r.frame_id = v.frame_id => r.person_id = v.person_id
    /\ \A v \in visits : v.status = "matched" <=> v.person_id # NULL
    /\ \A r \in recog, k \in ledger :
          (k.scope = "visit_event" /\ UuidParse(k.key) = r.frame_id) =>
              /\ k.status = "succeeded"
              /\ k.response_ref = r.metadata_json.job_id

\* the images the agent submits, as bytes and as the base64 text of the job
ImageTexts == {"A", "B"} \cup {B64Encode(image) : image \in {"A", "B"}}

\* C19 -- in every state the stored RecognitionResult rows (metadata_json
\* included), VisitEvent rows and IdempotencyKey rows have exactly the fields
\* the code gives them: identifiers, the request hash, scores, hints and
\* decisions; no field holds the bytes of a submitted image or their base64
\* text, whatever the outcome of the job was.
C19_NoImageInStoredRows ==
    /\ \A r \in recog :
          /\ DOMAIN r = {"frame_id", "gate_id", "session_id", "decision",
                         "rejection_reason", "best_face_id", "best_confidence",
                         "person_id", "provider_code", "metadata_json"}
          /\ DOMAIN r.metadata_json = {"job_id", "request_hash", "face_present",
                                       "motion_score", "matches"}
          /\ {r.frame_id, r.gate_id, r.session_id, r.decision, r.rejection_reason,
              r.best_face_id, r.person_id, r.provider_code, r.metadata_json.job_id,
              r.metadata_json.face_present, r.metadata_json.motion_score}
                 \cap ImageTexts = {}
          /\ r.best_confidence \in Int
          /\ r.metadata_json.request_hash[1] = "sha256"
          /\ \A match \in r.metadata_json.matches :
                match[1] \notin ImageTexts /\ match[2] \in Int
    /\ \A v \in visits :
          /\ DOMAIN v = {"frame_id", "gate_id", "captured_at", "person_id", "status"}
          /\ {v.frame_id, v.gate_id, v.captured_at, v.person_id, v.status}
                 \cap ImageTexts = {}
    /\ \A k \in ledger :
          /\ DOMAIN k = {"scope", "key", "request_hash", "response_ref", "status"}
          /\ {k.scope, k.key, k.response_ref, k.status} \cap ImageTexts = {}
          /\ k.request_hash[1] = "sha256"

\* the job of a frame without the face hint has passed the image to the
\* matching capability and stored a match, the image still in the job message
C19_Witness ==
    /\ \E r \in recog :
          /\ r.metadata_json.face_present = NULL
          /\ r.decision = "matched"
          /\ r.metadata_json.matches # {}
    /\ \E i \in 1..Len(queue) : queue[i].image_b64 \in ImageTexts
    /\ visits # {}
    /\ ledger # {}

\* ================================================ face enrollment, claims
\* C20 -- DELETE /people/{id}/faces for a person that exists: when the person
\* has active face profiles and the capability and the commit succeed, the
\* call returns 200 with the face ids of exactly those profiles and leaves
\* them deleted, no profile of the person active and the profiles of other
\* persons as they were; when the person has no active profile, the call
\* returns 200 with an empty list, calls the capability not at all and
\* changes no table.  Only a successful enrollment makes a profile active,
\* so every call after the first one returns the empty list until then.
C20_DeleteFacesIdempotent ==
    [][/\ \A person_id \in {"p1", "p2"}, out \in DeleteOutcomes, ok \in BOOLEAN :
            DeleteFaces(person_id, out, ok) =>
               LET active == {f \in profiles :
                                 f.person_id = person_id /\ f.status = "active"}
               IN  IF active = {}
                   THEN /\ faceAnswer' = [status |-> 200, ids |-> {}, calls |-> <<>>]
                        /\ UNCHANGED <<profiles, consent, consentEvents, audits>>
                   ELSE (out = "ok" /\ ok) =>
                          /\ faceAnswer'.status = 200
                          /\ faceAnswer'.ids = {f.face_id : f \in active}
                          /\ \A f \in active :
                                [f EXCEPT !.status = "deleted"] \in profiles'
                          /\ ~\E f \in profiles' :
                                f.person_id = person_id /\ f.status = "active"
                          /\ {f \in profiles' : f.person_id # person_id}
                                = {f \in profiles : f.person_id # person_id}
       /\ \A f \in profiles' :
            (f.status = "active" /\ f \notin profiles) =>
                /\ faceAnswer'.status = 200
                /\ f.face_id \in faceAnswer'.ids
                /\ faceAnswer'.calls = <<"create_collection", "index_faces">>]_vars

\* the second DELETE for p1 has just been answered: an empty list, no call,
\* the profile deleted by the first and nothing enrolled since
C20_Witness ==
    /\ faceAnswer = [status |-> 200, ids |-> {}, calls |-> <<>>]
    /\ [face_id |-> "faceX", person_id |-> "p1", status |-> "deleted"] \in profiles
    /\ consent["p1"] = "revoked"
    /\ Len(audits) = 1
    /\ audits[1].action = "face.delete"

\* ================================================ send_message_job, claims
\* the number of send_sms calls made for one MessageLog
SmsCallsFor(id) == Cardinality({i \in 1..Len(smsCalls) : smsCalls[i] = id})

\* C21 as stated: a send_message_job run that finds its MessageLog with a
\* status other than queued or retry calls the messaging capability not at
\* all and changes neither the MessageLog nor the ledger; a MessageLog that
\* has left queued / retry is never changed again; and the capability is
\* invoked at most once for one MessageLog, whatever job runs there are.
C21_SentAtMostOnce ==
    /\ [][\A w \in Workers, ok \in BOOLEAN :
            (/\ SendPrepare(w, ok)
             /\ \E m \in msgLogs :
                   /\ m.id = queue[wrk[w].job].ref
                   /\ m.status \notin {"queued", "retry"})
            => /\ UNCHANGED <<msgLogs, ledger, smsCalls>>
               /\ wrk'[w].pc = "idle"]_vars
    /\ [][\A m \in msgLogs :
            m.status \notin {"queued", "retry"} => m \in msgLogs']_vars
    /\ [](\A m \in msgLogs : SmsCallsFor(m.id) <= 1)

\* C22 as stated: two welcome runs inside the cooldown window send one
\* message per eligible person, so no person ever has two MessageLogs of
\* the same template created within the cooldown of each other, and no two
\* SMS go out for them.
C22_OneWelcomePerWindow ==
    \A m1 \in msgLogs, m2 \in msgLogs :
        (/\ m1.id # m2.id
         /\ m1.person_id = m2.person_id
         /\ m1.template_id = m2.template_id
         /\ m1.created_at <= m2.created_at)
        => m2.created_at - m1.created_at > WelcomeCooldown

\* C23 as stated: whenever the absence rule creates follow-up tasks (its
\* commit makes them exist), no person they are for already has a task that
\* is neither closed nor resolved, and no two of them are for one person.
C23_NoSecondOpenTask ==
    [][\A n \in tasks' :
          n.id \notin {t.id : t \in tasks}
          => /\ \A t \in tasks : IsOpen(t) => t.person_id # n.person_id
             /\ \A m \in tasks' : (m.id \notin {t.id : t \in tasks}
                                     /\ m.person_id = n.person_id) => m.id = n.id]_vars

\* the active holders of a role
Holders(role_name) ==
    {u.user_id : u \in {x \in userRoles : x.role = role_name /\ x.is_active}}

\* an absence run on worker w reaches its final commit / commits
AbsenceSweeps(w) ==
    /\ wrk[w].pc = "rule"
    /\ wrk'[w].pc = "rule_commit"
    /\ queue[wrk[w].job].rule_id = "ra"

AbsenceCommits(w) ==
    /\ wrk[w].pc = "rule_commit"
    /\ wrk'[w].pc = "rule_dispatch"
    /\ queue[wrk[w].job].rule_id = "ra"

\* C24: the bulk reassignment of an absence run takes exactly the tasks that
\* are open and at least EscalationAge old when the run sweeps, and its
\* commit assigns them to an active Pastor, or when there is none to an
\* active BranchAdmin; every other task (younger, closed or resolved) keeps
\* its assignee; with no holder of either role no assignee changes and the
\* run completes.
C24_EscalationByRolePriority ==
    /\ [][\A w \in Workers :
            AbsenceSweeps(w)
            => LET dec == wrk'[w].dec
               IN  /\ Holders("Pastor") # {} => dec.user \in Holders("Pastor")
                   /\ (Holders("Pastor") = {} /\ Holders("BranchAdmin") # {})
                         => dec.user \in Holders("BranchAdmin")
                   /\ (Holders("Pastor") = {} /\ Holders("BranchAdmin") = {})
                         => dec.user = NULL /\ dec.escalate = {}
                   /\ dec.user # NULL
                         => dec.escalate =
                              {t.id : t \in {x \in tasks :
                                  /\ x.status \notin {"closed", "resolved"}
                                  /\ x.created_at <= now - EscalationAge}}]_vars
    /\ [][\A w \in Workers :
            AbsenceCommits(w)
            => /\ \A t \in tasks :
                    IF t.id \in wrk[w].dec.escalate
                    THEN [t EXCEPT !.assigned_to_user_id = wrk[w].dec.user] \in tasks'
                    ELSE t \in tasks'
               /\ \A r \in ruleRuns' : r.id = queue[wrk[w].job].ref
                                          => r.status = "completed"]_vars

\* an old open task was handed to the holder of an escalation role, while
\* a task that was closed kept the assignee it had
C24_Witness ==
    /\ \E t \in tasks : /\ t.assigned_to_user_id \in {"pastor1", "pastor2", "admin1"}
                        /\ t.person_id = "p1"
    /\ \E t \in tasks : t.id = "u9" /\ t.assigned_to_user_id = "staff7"
    /\ \E r \in ruleRuns : r.rule_id = "ra" /\ r.status = "completed"

\* the RuleRun of the job worker w executes
RunOf(w, runs) == CHOOSE r \in runs : r.id = queue[wrk[w].job].ref

\* the job on worker w ends without having completed or skipped its run and
\* without the "unsupported rule" return: an exception left the try block
RuleJobRaises(w) ==
    /\ wrk[w].pc \in {"rule", "rule_commit"}
    /\ wrk'[w].pc = "idle"
    /\ RunOf(w, ruleRuns').status \notin {"completed", "skipped"}
    /\ RunOf(w, ruleRuns').stats_json.error # "unsupported rule"

\* C29 as stated: whenever an exception ends run_rule_job, none of the rows
\* the run added and no reassignment is kept, and the RuleRun is committed
\* as failed with the error text.
C29_FailureAlwaysRecorded ==
    [][\A w \in Workers :
          RuleJobRaises(w)
          => /\ UNCHANGED <<msgLogs, ledger, tasks>>
             /\ RunOf(w, ruleRuns').status = "failed"
             /\ RunOf(w, ruleRuns').stats_json.error # NULL]_vars

\* C29, amended: an exception in run_rule_job keeps none of the rows the run
\* added and no reassignment, and dispatches nothing; the RuleRun is
\* committed as failed with the error text when the commit of the exception
\* handler succeeds, and is left exactly as it was when that commit raises
\* as well.
C29_RolledBackAndRecordedIfPossible ==
    /\ [][\A w \in Workers :
            RuleJobRaises(w)
            => /\ UNCHANGED <<msgLogs, ledger, tasks, queue>>
               /\ \/ /\ RunOf(w, ruleRuns').status = "failed"
                     /\ RunOf(w, ruleRuns').stats_json.error # NULL
                  \/ UNCHANGED ruleRuns]_vars
    /\ [][\A w \in Workers, user \in EscalationUsers(userRoles) :
            RuleEvaluate(w, user, "error")
            => /\ RunOf(w, ruleRuns').status = "failed"
               /\ RunOf(w, ruleRuns').stats_json.error = "OperationalError"]_vars
    /\ [][\A w \in Workers :
            RuleCommit(w, "error")
            => /\ RunOf(w, ruleRuns').status = "failed"
               /\ RunOf(w, ruleRuns').stats_json.error = "OperationalError"
               /\ UNCHANGED <<msgLogs, ledger, tasks, queue>>]_vars

\* an absence run failed and is on record as failed, its task for p1 is not
C29_Witness ==
    /\ \E r \in ruleRuns : /\ r.rule_id = "ra" /\ r.status = "failed"
                           /\ r.stats_json.error = "OperationalError"
    /\ \A t \in tasks : t.person_id # "p1"
    /\ \A w \in Workers : wrk[w].pc = "idle"

\* the committed record a queued job is about
RecordCommitted(job) ==
    CASE job.kind = "send_message" -> \E m \in msgLogs : m.id = job.ref
      [] job.kind = "recognition" ->
            \E r \in ledger : r.scope = "visit_event" /\ r.response_ref = job.ref
      [] OTHER -> \E r \in ruleRuns : r.id = job.ref

\* C28: every job with the broker has its record committed (the MessageLog
\* of a send job, the ledger row of a recognition job, the RuleRun of a
\* rule job); run_rule_job hands jobs to the broker only after its final
\* commit, with its RuleRun completed, and hands over none when it fails.
C28_EnqueuedAfterCommit ==
    /\ [](\A i \in 1..Len(queue) : RecordCommitted(queue[i]))
    /\ [][\A w \in Workers :
            (wrk'[w] # wrk[w] /\ queue' # queue)
            => /\ wrk[w].pc = "rule_dispatch"
               /\ RunOf(w, ruleRuns).status = "completed"
               /\ UNCHANGED <<msgLogs, ledger, ruleRuns>>]_vars
    /\ [][\A w \in Workers : RuleJobRaises(w) => UNCHANGED queue]_vars
    /\ [][\A p \in ApiProcs :
            (queue' # queue /\ req'[p] # req[p])
            => /\ req[p].pc = "enqueue"
               /\ UNCHANGED <<msgLogs, ledger>>]_vars

\* the broker holds a job of each producer: a recognition job, a send job of
\* POST /messages/send and a send job dispatched by a welcome run
C28_Witness ==
    /\ \E i \in 1..Len(queue) : queue[i].kind = "recognition"
    /\ \E i \in 1..Len(queue) :
          /\ queue[i].kind = "send_message"
          /\ \E r \in ledger : r.key = MessageKey("k2") /\ r.response_ref = queue[i].ref
    /\ \E i \in 1..Len(queue) :
          /\ queue[i].kind = "send_message"
          /\ \E r \in ledger : r.key = AutoKey("p1", "tpl1", "u1")
                               /\ r.response_ref = queue[i].ref
    /\ \E r \in ruleRuns : r.status = "failed"

\* the Tenant row on file for the Idempotency-Key of a request, if any
TenantOfKey(inp) == CHOOSE t \in tenants : t.idempotency_key = inp.key

\* POST /tenants with a key that a committed Tenant row carries
RepeatsKey(p, inp) ==
    /\ inp.key # NULL
    /\ \E t \in tenants : t.idempotency_key = inp.key
    /\ ProvisionBegin(p, inp)

C26_KeyReuseConflicts ==
    [][\A p \in ApiProcs, inp \in TenantRequests :
          (/\ RepeatsKey(p, inp)
           /\ \/ TenantOfKey(inp).slug # SlugNormalize(inp.slug)
              \/ TenantOfKey(inp).name # NameStrip(inp.name))
          => resp'.status = 409]_vars

\* provisioning on thread p ends in an error after its Tenant row was
\* committed
ProvisionRaises(p) ==
    /\ prov'[p].pc = "idle"
    /\ resp'.status # 201
    /\ \/ prov[p].pc \in {"create", "setup", "final"}
       \/ prov[p].pc = "commit" /\ tenants' # tenants

\* C27 as stated: when provisioning fails after the Tenant row was
\* committed, neither the database nor the role of that tenant remains, the
\* Tenant row is persisted as failed (status error) and has no connection
\* row.
C27_FailureLeavesNothing ==
    [][\A p \in ApiProcs :
          ProvisionRaises(p)
          => /\ TenantDbName(prov[p].id) \notin databases'
             /\ TenantDbName(prov[p].id) \notin dbRoles'
             /\ \A t \in tenants' : t.id = prov[p].id
                   => t.status = "error" /\ t.provisioning_state = "failed"
             /\ \A c \in tenantDbs' : c.tenant_id # prov[p].id]_vars

\* the provider calls C30 names
ProviderCalls == {"recognize", "enroll", "delete_face_ids", "send_sms"}

\* C30: no database transaction of a tenant session is open while a call to
\* a third-party provider (face matching recognize, enroll or delete; SMS
\* send) is in flight in recognition_job, send_message_job, enroll_faces or
\* delete_faces.
C30_NoTransactionAcrossProviderCall ==
    \A o \in TxnOwners : txn[o].call \in ProviderCalls => ~txn[o].open

\* ------------------------------------------------------------ claims 31-40
LedgerKeys(rows) == {r.key : r \in rows}

\* C31: every IdempotencyKey record is created with status pending, changes
\* status only from pending to succeeded or failed, never changes again
\* once succeeded or failed, and is never deleted.
C31_StatusOnlyForward ==
    [][/\ \A r \in ledger' : r.key \notin LedgerKeys(ledger) => r.status = "pending"
       /\ \A r \in ledger :
             \E r2 \in ledger' :
                /\ r2.key = r.key
                /\ \/ r2.status = r.status
                   \/ r.status = "pending" /\ r2.status \in {"succeeded", "failed"}]_vars

\* the invocation of job i ends in this step: at once in JobStart (no
\* session, or a ValueError of the argument conversions), or by a worker
\* that was running it becoming idle
JobEnds(i) ==
    \/ /\ i \in DOMAIN delivered
       /\ delivered'[i] # delivered[i]
       /\ \A w \in Workers : wrk'[w] = wrk[w]
    \/ \E w \in Workers :
          wrk[w].pc # "idle" /\ wrk[w].job = i /\ wrk'[w].pc = "idle"

\* C32: whenever a recognition_job invocation for an accepted frame ends,
\* the idempotency record of the frame is succeeded or failed, not pending:
\* also when the tenant secret is unavailable or the write fails.
C32_TerminalOutcomeRecorded ==
    [][\A i \in 1..Len(queue) :
          (queue[i].kind = "recognition" /\ JobEnds(i))
          => \A r \in ledger' :
                r.key = queue[i].frame_id => r.status \in {"succeeded", "failed"}]_vars

\* the ledger status that matches a terminal MessageLog status
MatchingStatus(log_status) == IF log_status = "sent" THEN "succeeded" ELSE "failed"

\* C33: whenever send_message_job moves a MessageLog to sent or failed, the
\* idempotency record of scope message_send whose response_ref is the log
\* id, if there is one, has the matching status after the same commit.
C33_LedgerFollowsLog ==
    [][\A m \in msgLogs : \A m2 \in msgLogs' :
          (m2.id = m.id /\ m2.status # m.status /\ m2.status \in {"sent", "failed"})
          => \A r \in ledger' :
                (r.scope = "message_send" /\ r.response_ref = m.id)
                => r.status = MatchingStatus(m2.status)]_vars

\* C34: when messaging runs in a non-mock mode and the tenant has no
\* provider API key, send_message_job never invokes the messaging
\* capability, and a MessageLog it gives up on is failed with
\* messaging_not_configured.
C34_NoKeyNoSend ==
    [][(settings.messaging_mode # "mock" /\ apiKey = NULL)
       => /\ smsCalls' = smsCalls
          /\ \A w \in Workers :
                (wrk[w].pc = "send_message" /\ wrk'[w].pc # "send_message"
                 /\ SendJobPlan(queue[wrk[w].job]) \in {"call", "messaging_not_configured"})
                => /\ wrk'[w].pc = "idle"
                   /\ \A m \in msgLogs' :
                         (m.id = queue[wrk[w].job].ref /\ m \notin msgLogs)
                         => /\ m.status = "failed"
                            /\ m.error_code = "messaging_not_configured"]_vars

\* C39: for any interleaving of two send_message_job executions for one
\* MessageLog, the messaging capability is invoked at most once for it.
C39_NoDoubleSend ==
    \A i \in DOMAIN smsCalls : \A j \in DOMAIN smsCalls :
        smsCalls[i] = smsCalls[j] => i = j

\* a transport error, 429 or 5xx: the answers send_sms retries
Retryable(answer) == answer.status = 0 \/ answer.status = 429 \/ answer.status >= 500

RetryCode(answer) == IF answer.status = 0 THEN "timeout" ELSE "retryable_error"

\* C35: send_sms makes at most 3 HTTP attempts; every attempt before the
\* last one was answered by a transport error, 429 or 5xx, and was followed
\* by a sleep that grows linearly with the attempt number; it returns sent
\* on the first 200, failed / rejected at once on 400, 401 or 403, and
\* failed with the last error code when the third attempt is retryable.
C35_AtMostThreeAttempts ==
    LET n == Len(mnotify.posts)
    IN  /\ n <= 3
        /\ mnotify.attempts = n
        /\ \A i \in 1..n : i < n => Retryable(mnotify.posts[i])
        /\ \A i \in 1..Len(mnotify.slept) : mnotify.slept[i] = i
        /\ mnotify.pc = "loop" => \A i \in 1..n : Retryable(mnotify.posts[i])
        /\ mnotify.pc = "done" =>
              LET last == mnotify.posts[n]
              IN  /\ last.status = 200 => mnotify.result = [status |-> "sent", error_code |-> NULL]
                  /\ last.status \in {400, 401, 403}
                        => mnotify.result = [status |-> "failed", error_code |-> "rejected"]
                  /\ Retryable(last)
                        => /\ n = 3
                           /\ mnotify.result = [status |-> "failed",
                                            error_code |-> RetryCode(last)]

\* a value of at most 1 read as a fraction (values are in hundredths)
Rescaled(v) == IF v <= 100 THEN v * 100 ELSE v

ConfigRows(key) == {r \in tenantCfg : r.key = key}

\* the jobs that have compared a best match against the minimum confidence
Compared ==
    {w \in Workers : /\ wrk[w].pc = "recog_commit"
                     /\ wrk[w].dec.best_face_id # NULL
                     /\ wrk[w].dec.best_confidence # NoConf}

BelowIffUnder(w, minimum) ==
    (wrk[w].dec.rejection_reason = "below_threshold")
        <=> (wrk[w].dec.best_confidence < minimum)

\* C36 as stated: the minimum confidence is the configured threshold,
\* whichever key holds it, times 100 when it is at most 1 and unchanged
\* otherwise.
C36_FractionRescaled ==
    \A w \in Compared : \A r \in tenantCfg :
        (r.key = "recognition_threshold"
         \/ (r.key = "rekognition_min_confidence"
             /\ ConfigRows("recognition_threshold") = {}))
        => BelowIffUnder(w, Rescaled(r.value))

\* C36 amended: a configured recognition_threshold is rescaled when it is at
\* most 1 and used unchanged above 1; without it rekognition_min_confidence
\* (90 by default) is the minimum, used unchanged whatever its value.
C36_OnlyRecognitionThresholdRescaled ==
    \A w \in Compared : \A r \in tenantCfg :
        /\ r.key = "recognition_threshold" => BelowIffUnder(w, Rescaled(r.value))
        /\ (r.key = "rekognition_min_confidence"
            /\ ConfigRows("recognition_threshold") = {})
           => BelowIffUnder(w, r.value)

\* a job found 80 percent below a recognition_threshold stored as 0.9
C36_Witness ==
    \E w \in Compared :
        /\ [key |-> "recognition_threshold", value |-> 90] \in tenantCfg
        /\ wrk[w].dec.best_confidence = 8000
        /\ wrk[w].dec.rejection_reason = "below_threshold"

\* the records the control plane can return for a slug
UpstreamRecords(slug) == {TenantRegistryRecord(slug, h) : h \in DbHosts}

\* C37: under any interleaving of get_tenant calls each slug has no entry
\* or one whole (expiry, record) pair whose record is one the control plane
\* returns for that slug; an entry is written only by a call that fetched
\* its record, with an expiry of the start of that call plus the TTL; and a
\* call that returns, returns a record of the slug it asked for.
C37_CacheNeverCorrupted ==
    /\ [](\A slug \in Slugs :
             \/ cache[slug] = NoEntry
             \/ /\ cache[slug].record \in UpstreamRecords(slug)
                /\ cache[slug].expiry # NoTime
                /\ cache[slug].expiry <= clock + Ttl)
    /\ [](\A th \in RegistryThreads :
             (lookups[th].pc = "done" /\ lookups[th].outcome.kind = "record")
             => lookups[th].outcome.record \in UpstreamRecords(lookups[th].slug))
    /\ [][\A slug \in Slugs :
             cache'[slug] # cache[slug]
             => \E th \in RegistryThreads :
                   /\ lookups[th].pc = "store"
                   /\ lookups[th].slug = slug
                   /\ lookups'[th].pc = "done"
                   /\ cache'[slug] = [expiry |-> lookups[th].started + Ttl,
                                      record |-> lookups[th].outcome.record]]_vars

\* two calls missed for one slug at the same time, and the one that
\* started first has overwritten the entry of the other
C37_Witness ==
    /\ lookups["t1"].pc = "done" /\ lookups["t2"].pc = "done"
    /\ lookups["t1"].slug = "grace" /\ lookups["t2"].slug = "grace"
    /\ lookups["t1"].started < lookups["t2"].started
    /\ lookups["t1"].outcome.kind = "record" /\ lookups["t2"].outcome.kind = "record"
    /\ lookups["t1"].outcome.record # lookups["t2"].outcome.record
    /\ cache["grace"] = [expiry |-> lookups["t1"].started + Ttl,
                         record |-> lookups["t1"].outcome.record]

\* the session of the presented token is inside its cooldown interval
InCooldown(inp) ==
    \E gs \in gateSess :
        /\ gs.token = inp.tok
        /\ gs.last_frame_at # NoTime
        /\ settings.gate_frame_cooldown_seconds > 0
        /\ now - gs.last_frame_at < settings.gate_frame_cooldown_seconds

\* C38: in POST /gate/frames a resubmission of an accepted frame (same
\* frame_id, same payload) inside the cooldown interval of the session is
\* answered 429 and not as a replay; a replay is answered only when the
\* cooldown has elapsed or is 0.
C38_CooldownBeforeReplay ==
    [][\A p \in ApiProcs : \A inp \in LedgerFrameInputs :
          (/\ FramesBegin(p, inp, TRUE)
           /\ \E r \in ledger : r.key = inp.frame_id /\ r.request_hash = FrameHash(inp))
          => /\ InCooldown(inp) => (resp'.status = 429 /\ ~resp'.idem)
             /\ resp'.idem => ~InCooldown(inp)]_vars

\* frame f1 is on the ledger, its session is inside the cooldown interval,
\* and the request just answered got 429
C38_Witness ==
    /\ resp.status = 429
    /\ \E r \in ledger : r.key = "f1"
    /\ InCooldown([BaseFrame EXCEPT !.tok = "tok1"])

\* the Tenant rows a connection row belongs to
TenantOf(c) == {t \in tenants : t.id = c.tenant_id}

\* C40: in the control plane a TenantDbConnection row exists only for a
\* tenant that is active with provisioning_state ready, and GET
\* /tenants/resolve answers with connection coordinates only for such a
\* tenant, never for one that is still provisioning or that failed.
C40_ConnectionOnlyWhenReady ==
    /\ [](\A c \in tenantDbs :
             /\ TenantOf(c) # {}
             /\ \A t \in TenantOf(c) :
                   t.status = "active" /\ t.provisioning_state = "ready")
    /\ [][\A raw \in {"grace", " Grace", "hope"} :
             (ResolveTenant(raw) /\ resp'.status = 200)
             => \E t \in tenants :
                   /\ t.slug = SlugNormalize(raw)
                   /\ t.status = "active"
                   /\ t.provisioning_state = "ready"
                   /\ resp'.ref = TenantDbName(t.id)]_vars

\* one tenant failed, another is provisioned, and the last resolve answered
\* with the coordinates of the provisioned one
C40_Witness ==
    /\ resp.status = 200
    /\ resp.ref \in {c.db_name : c \in tenantDbs}
    /\ \E t \in tenants : t.status = "error" /\ t.provisioning_state = "failed"
====
